---- MODULE Spec2Model ----
(***************************************************************************)
(* Model of the portfolio page (web_app/frontend/src/pages/Portfolio.jsx)  *)
(* and of the services it calls: the values it reads from the backend, the *)
(* holding merge, the sparkline synthesizer, day bucketing, and the chart  *)
(* reconstruction effect (fetchChartData) with its asynchronous runs.      *)
(*                                                                         *)
(* Time is measured in hours (the code's milliseconds divided by           *)
(* 60*60*1000); a timestamp that is not a whole number of hours is kept as *)
(* an exact fraction.  Arithmetic on finite numbers is exact: rounding and *)
(* overflow of IEEE doubles are not modelled.                              *)
(***************************************************************************)
EXTENDS Integers, Sequences, FiniteSets, TLC

VARIABLES
    holdings,        \* useState holdings (Portfolio.jsx:349), merged holdings
    chartTimeframe,  \* useState chartTimeframe (Portfolio.jsx:366)
    chartData,       \* useState chartData (Portfolio.jsx:378)
    chartLoading,    \* useState chartLoading (Portfolio.jsx:379)
    chartError,      \* useState chartError (Portfolio.jsx:380)
    chartRuns,       \* the invocations of fetchChartData started so far
    effectPending,   \* the chart effect's dependencies changed, effect not yet run
    nowTs,           \* Date.now()
    loading,         \* useState loading (Portfolio.jsx:350)
    error,           \* useState error
    server,          \* the positions the backend holds for the user
    loadEffects,     \* the instances of the loadPortfolio effect run so far
    loads,           \* the invocations of loadPortfolio started so far
    trades,          \* the invocations of handleAddCrypto / handleSellCrypto
    fetchSeq,        \* how many position fetches (fetchPortfolio) have started
    loadEffectPending, \* the load effect's dependencies changed, effect not yet run
    called,          \* the helper function applied last, "none" before any call
    calledWith,      \* the arguments of that call
    returned,        \* the value that call returned
    showAddModal,    \* useState showAddModal (Portfolio.jsx:352)
    searchQuery,     \* useState searchQuery (Portfolio.jsx:355)
    searchResults,   \* useState searchResults (Portfolio.jsx:356)
    showSearchResults, \* useState showSearchResults
    searchLoading,   \* useState searchLoading (Portfolio.jsx:357)
    searches,        \* the instances of the search effect run so far
    addForm,         \* the other fields of the add-holding modal
    priceFetches,    \* the price requests of handleSelectCoin
    currency,        \* useState currency of useUserCurrency
    profile,         \* preferred_currency as the backend stores it
    currencyLoads,   \* the invocations of loadCurrency started so far
    profilePage,     \* settings.currency, originalSettings.currency of Profile
    saves,           \* the invocations of handleSubmit started so far
    lastEvent,       \* detail.currency of the latest currency-changed event
    eventCount,      \* how many currency-changed events were dispatched
    page,            \* useState page (Dashboard.jsx:81)
    allCoins,        \* useState allCoins (Dashboard.jsx:71)
    loadingCoins,    \* useState loadingCoins
    coinsError,      \* useState coinsError
    coinEffect,      \* how many instances of the coin load effect have run
    coinLoads        \* the invocations of loadTopCoins started so far

loadVars == <<loading, error, server, loadEffects, loads, trades, fetchSeq,
              loadEffectPending>>

chartVars == <<chartTimeframe, chartData, chartLoading, chartError, chartRuns, nowTs>>

callVars == <<called, calledWith, returned>>

searchVars == <<showAddModal, searchQuery, searchResults, showSearchResults,
                searchLoading, searches, addForm, priceFetches>>

currencyVars == <<currency, profile, currencyLoads, profilePage, saves, lastEvent,
                  eventCount>>

dashVars == <<page, allCoins, loadingCoins, coinsError, coinEffect, coinLoads>>

pagesVars == <<searchVars, currencyVars, dashVars>>

portfolioVars == <<holdings, effectPending, chartVars, loadVars, callVars>>

vars == <<holdings, chartTimeframe, chartData, chartLoading, chartError,
          chartRuns, effectPending, nowTs, loadVars, callVars, pagesVars>>

----------------------------------------------------------------------------
(* JavaScript values that cross the boundary from the backend.             *)

Abs(x) == IF x < 0 THEN -x ELSE x

Max(a, b) == IF a >= b THEN a ELSE b

Min(a, b) == IF a <= b THEN a ELSE b

RECURSIVE GCD(_, _)
GCD(a, b) == IF b = 0 THEN a ELSE GCD(b, a % b)

\* A finite number n/d in lowest terms, d > 0.
Frac(n, d) ==
    LET g == GCD(Abs(n), d)
    IN  [t |-> "number", n |-> n \div g, d |-> d \div g]

Num(n) == [t |-> "number", n |-> n, d |-> 1]

JSNull == [t |-> "null", n |-> 0, d |-> 1]

JSUndefined == [t |-> "undefined", n |-> 0, d |-> 1]

JSNaN == [t |-> "NaN", n |-> 0, d |-> 1]

JSInfinity == [t |-> "Infinity", n |-> 0, d |-> 1]

JSNegInfinity == [t |-> "-Infinity", n |-> 0, d |-> 1]

\* Number(value): null converts to 0, undefined to NaN.
JSNumber(value) ==
    CASE value.t = "number"    -> value
      [] value.t = "null"      -> Num(0)
      [] value.t = "undefined" -> JSNaN
      [] OTHER                 -> value

NumberIsFinite(value) == value.t = "number"

\* value == null (loose equality: null or undefined)
IsNullish(value) == value.t \in {"null", "undefined"}

toFiniteNumber(value) ==
    LET num == JSNumber(value)
    IN  IF NumberIsFinite(num) THEN num ELSE JSNull

\* a ?? b
Coalesce(a, b) == IF IsNullish(a) THEN b ELSE a

\* Time is counted in hours: one hour is the unit of every timestamp.
ONE_HOUR_MS == 1

FALLBACK_SPARKLINE_POINTS == 48

NoError == "null"

----------------------------------------------------------------------------
(* Sequences.                                                              *)

\* Array.prototype.map builds the whole array: the sequence with every
\* element computed.
ArrayOf(f) == f \o << >>

RECURSIVE SelectInts(_)
\* series.map(toFiniteNumber).filter(point => point != null), as integers
SelectInts(series) ==
    IF series = <<>> THEN <<>>
    ELSE LET p == toFiniteNumber(Head(series))
         IN  IF IsNullish(p) THEN SelectInts(Tail(series))
             ELSE <<p.n>> \o SelectInts(Tail(series))

RECURSIVE SortAscending(_)
SortAscending(S) ==
    IF S = {} THEN <<>>
    ELSE LET m == CHOOSE x \in S : \A y \in S : x <= y
         IN  <<m>> \o SortAscending(S \ {m})

RECURSIVE SumSeq(_)
SumSeq(s) == IF s = <<>> THEN 0 ELSE Head(s) + SumSeq(Tail(s))

----------------------------------------------------------------------------
(* Sparkline synthesizer and holding merge.                                *)

\* series: [isArray, items]; fallbackValue: a JS value
buildSparklineSeries(series, fallbackValue) ==
    LET cleaned == IF series.isArray THEN SelectInts(series.items) ELSE <<>>
        base    == toFiniteNumber(fallbackValue)
    IN  IF Len(cleaned) >= 2 THEN cleaned
        ELSE IF Len(cleaned) = 1
             THEN ArrayOf([i \in 1..Max(FALLBACK_SPARKLINE_POINTS, Len(cleaned)) |->
                              cleaned[1]])
        ELSE IF IsNullish(base) THEN <<>>
        ELSE ArrayOf([i \in 1..FALLBACK_SPARKLINE_POINTS |-> base.n])

\* One element of the backend's holdings payload -> UI shape.
normalizeHoldingFromApi(h) ==
    [id          |-> h.coin_id,
     quantity    |-> Coalesce(toFiniteNumber(h.quantity), Num(0)),
     avgBuyPrice |-> Coalesce(toFiniteNumber(h.avg_price), Num(0))]

normalizeHoldingsFromApi(apiHoldings) ==
    ArrayOf([i \in 1..Len(apiHoldings) |-> normalizeHoldingFromApi(apiHoldings[i])])

\* The market entry fetchMarketsByIds returns for an id that has none: {}.
NoMarket ==
    [current_price |-> JSUndefined, ch24h |-> JSUndefined, ch7d |-> JSUndefined,
     sparkline |-> [isArray |-> FALSE, items |-> <<>>]]

\* marketData.find((m) => m.id === holding.id) || {}
FindMarket(marketData, id) ==
    IF \E i \in 1..Len(marketData) : marketData[i].id = id
    THEN LET i == CHOOSE i \in 1..Len(marketData) :
                      /\ marketData[i].id = id
                      /\ \A j \in 1..(i - 1) : marketData[j].id # id
         IN  [current_price |-> marketData[i].current_price,
              ch24h         |-> marketData[i].ch24h,
              ch7d          |-> marketData[i].ch7d,
              sparkline     |-> marketData[i].sparkline]
    ELSE NoMarket

convertUsd(value, usdRate) ==
    LET num == toFiniteNumber(value)
    IN  IF IsNullish(num) THEN JSNull
        ELSE IF usdRate <= 0 THEN num
        ELSE Num(num.n * usdRate)

mergeHoldingWithMarket(holding, marketData, usdRate) ==
    LET market          == FindMarket(marketData, holding.id)
        quantity        == Coalesce(toFiniteNumber(holding.quantity), Num(0))
        avgBuyPriceUsd  == Coalesce(toFiniteNumber(holding.avgBuyPrice), Num(0))
        rawCurrentPrice == toFiniteNumber(market.current_price)
        fallbackPrice   ==
            IF ~IsNullish(rawCurrentPrice) /\ rawCurrentPrice.n > 0
            THEN rawCurrentPrice
            ELSE IF avgBuyPriceUsd.n > 0 THEN avgBuyPriceUsd ELSE JSNull
        resolvedPrice   ==
            IF ~IsNullish(rawCurrentPrice) THEN rawCurrentPrice
            ELSE IF ~IsNullish(avgBuyPriceUsd) THEN avgBuyPriceUsd ELSE Num(0)
        avgBuyPriceDisplay == Coalesce(convertUsd(avgBuyPriceUsd, usdRate), avgBuyPriceUsd)
    IN  [id             |-> holding.id,
         quantity       |-> quantity.n,
         avgBuyPrice    |-> avgBuyPriceDisplay.n,
         avgBuyPriceUsd |-> avgBuyPriceUsd.n,
         currentPrice   |-> Coalesce(resolvedPrice, Num(0)).n,
         ch24h          |-> toFiniteNumber(market.ch24h),
         ch7d           |-> toFiniteNumber(market.ch7d),
         sparkline      |-> buildSparklineSeries(market.sparkline, fallbackPrice)]

mergeHoldingsWithMarket(hs, marketData, usdRate) ==
    ArrayOf([i \in 1..Len(hs) |-> mergeHoldingWithMarket(hs[i], marketData, usdRate)])

----------------------------------------------------------------------------
(* Day bucketing.                                                          *)

bucketTimestamp(timestamp) ==
    LET rawTs        == toFiniteNumber(timestamp)
        bucketSizeMs == 24 * ONE_HOUR_MS
    IN  IF IsNullish(rawTs) THEN JSNull
        ELSE Num((rawTs.n \div (rawTs.d * bucketSizeMs)) * bucketSizeMs)

\* TIMEFRAMES[chartTimeframe] ?? TIMEFRAMES["7"], .days
ChartDays(timeframe) == IF timeframe = "30" THEN 30 ELSE 7

----------------------------------------------------------------------------
(* The chart reconstruction, fetchChartData (Portfolio.jsx:815-1000).      *)
(* A sample point is a tuple of JS values <<timestamp, price>>; a holding  *)
(* is a record produced by mergeHoldingWithMarket, whose quantity,         *)
(* avgBuyPrice and currentPrice are finite numbers and whose sparkline is  *)
(* a sequence of finite numbers.                                           *)

Resolved(value) == [rejected |-> FALSE, hadError |-> FALSE, value |-> value]

Rejected == [rejected |-> TRUE, hadError |-> FALSE, value |-> <<>>]

\* services/coingecko.js fetchMarketChart: resp is the outcome of the proxy
\* request, [ok, prices]; every failure is caught and becomes [].
fetchMarketChart(resp) ==
    IF resp.ok THEN Resolved(resp.prices) ELSE Resolved(<<>>)

\* The request's failure propagates to the caller instead of becoming [].
chartPromise_propagate(resp) ==
    IF resp.ok THEN Resolved(resp.prices) ELSE Rejected

\* fetchMarketChart({...}).catch((err) => { hadChartErrors = true; return []; })
chartPromise(resp) ==
    LET p == fetchMarketChart(resp)
    IN  IF p.rejected
        THEN [rejected |-> FALSE, hadError |-> TRUE, value |-> <<>>]
        ELSE p

\* The step divides the window by the number of points, not of intervals.
SparklineHistory_shortStep(holding, now, chartDays) ==
    LET n        == Len(holding.sparkline)
        windowMs == chartDays * 24 * ONE_HOUR_MS
    IN  ArrayOf([i \in 1..n |->
                    << Frac(now * n - (n - i) * windowMs, n),
                       Num(holding.sparkline[i]) >>])

\* The samples synthesized from a holding's sparkline: point i (0-based) at
\* nowTs - (length - 1 - i) * stepMs, stepMs = chartDays * 24h / spanSteps.
SparklineHistory(holding, now, chartDays) ==
    LET n         == Len(holding.sparkline)
        spanSteps == Max(n - 1, 1)
        windowMs  == chartDays * 24 * ONE_HOUR_MS
    IN  ArrayOf([i \in 1..n |->
                    << Frac(now * spanSteps - (n - i) * windowMs, spanSteps),
                       Num(holding.sparkline[i]) >>])

\* "Fall back to sparkline data if market chart is unavailable"
WithSparklineFallback(data, holding, now, chartDays) ==
    IF Len(data) > 0 THEN data
    ELSE IF Len(holding.sparkline) = 0 THEN <<>>
    ELSE SparklineHistory(holding, now, chartDays)

AllChartData(hs, promises, now, chartDays) ==
    ArrayOf([i \in 1..Len(hs) |->
                WithSparklineFallback(promises[i].value, hs[i], now, chartDays)])

NowBucket(now) == bucketTimestamp(Num(now)).n

\* The lower clip is dropped: every sample is kept.
WindowStart_unclipped(now, chartDays) == 0 - 1000000

WindowStart(now, chartDays) == now - (chartDays - 1) * 24 * ONE_HOUR_MS

\* The point passes the filters of the coinData.forEach body.
UsablePoint(point, windowStart) ==
    /\ Len(point) >= 2
    /\ LET timestamp == bucketTimestamp(point[1])
       IN  /\ ~IsNullish(timestamp)
           /\ ~(timestamp.n < windowStart)
    /\ NumberIsFinite(toFiniteNumber(point[2]))

\* map.set(key, v)
MapSet(map, key, v) == (key :> v) @@ map

\* map.set(key, (map.get(key) ?? 0) + v)
MapAdd(map, key, v) ==
    MapSet(map, key, (IF key \in DOMAIN map THEN map[key] ELSE 0) + v)

EmptyMap == [k \in {} |-> 0]

\* The first usable sample of a bucket is kept: later ones do not overwrite.
PriceByTimestamp_firstWins(coinData, windowStart) ==
    LET usable     == {i \in 1..Len(coinData) : UsablePoint(coinData[i], windowStart)}
        bucket(i)  == bucketTimestamp(coinData[i][1]).n
        firstOf(b) == LET same == {i \in usable : bucket(i) = b}
                      IN  CHOOSE i \in same : \A j \in same : i <= j
    IN  [b \in {bucket(i) : i \in usable} |->
            toFiniteNumber(coinData[firstOf(b)][2]).n] @@ EmptyMap

\* priceByTimestamp after the forEach: bucket -> price of the last usable
\* sample of that bucket (Map.set overwrites).
PriceByTimestamp(coinData, windowStart) ==
    LET usable    == {i \in 1..Len(coinData) : UsablePoint(coinData[i], windowStart)}
        bucket(i) == bucketTimestamp(coinData[i][1]).n
        lastOf(b) == LET same == {i \in usable : bucket(i) = b}
                     IN  CHOOSE i \in same : \A j \in same : j <= i
    IN  [b \in {bucket(i) : i \in usable} |->
            toFiniteNumber(coinData[lastOf(b)][2]).n] @@ EmptyMap

\* A holding's contribution replaces the bucket's total instead of adding to it.
AddPriceEntries_overwrite(map, prices, qty, avg) ==
    [timestamp \in (DOMAIN map) \cup (DOMAIN prices) |->
        IF timestamp \in DOMAIN prices THEN qty * (prices[timestamp] - avg)
        ELSE map[timestamp]]
    @@ EmptyMap

\* sortedPriceEntries.forEach(([timestamp, price]) => portfolioProfitMap.set(
\*   timestamp, (portfolioProfitMap.get(timestamp) ?? 0) + qty * (price - avg)))
AddPriceEntries(map, prices, qty, avg) ==
    [timestamp \in (DOMAIN map) \cup (DOMAIN prices) |->
        (IF timestamp \in DOMAIN map THEN map[timestamp] ELSE 0)
        + (IF timestamp \in DOMAIN prices THEN qty * (prices[timestamp] - avg) ELSE 0)]
    @@ EmptyMap

\* The body of holdings.forEach((holding, index) => ...): every bucket of
\* priceByTimestamp adds qty * (price - avg) to portfolioProfitMap, then the
\* live profit is added at nowBucket.
AccumulateHolding(map, holding, coinData, nowBucket, windowStart) ==
    LET qty    == holding.quantity
        avg    == holding.avgBuyPrice
        prices == PriceByTimestamp(coinData, windowStart)
        currentProfit == qty * (holding.currentPrice - avg)
    IN  IF qty <= 0 THEN map
        ELSE IF DOMAIN prices = {} THEN map
        ELSE MapAdd(AddPriceEntries(map, prices, qty, avg), nowBucket, currentProfit)

RECURSIVE AccumulateFrom(_, _, _, _, _, _)
AccumulateFrom(map, hs, allChartData, index, nowBucket, windowStart) ==
    IF index > Len(hs) THEN map
    ELSE AccumulateFrom(
             AccumulateHolding(map, hs[index], allChartData[index], nowBucket, windowStart),
             hs, allChartData, index + 1, nowBucket, windowStart)

\* portfolioProfitMap after holdings.forEach
AccumulatedProfitMap(hs, allChartData, now, chartDays) ==
    AccumulateFrom(EmptyMap, hs, allChartData, 1, NowBucket(now),
                   WindowStart(now, chartDays))

\* holdings.reduce of the live profit of the holdings of positive quantity
CurrentProfit(hs) ==
    SumSeq([i \in 1..Len(hs) |->
               IF hs[i].quantity <= 0 THEN 0
               ELSE hs[i].quantity * (hs[i].currentPrice - hs[i].avgBuyPrice)])

\* if (!portfolioProfitMap.has(nowBucket)) { ... set(nowBucket, currentProfit) }
WithNowBucket(map, hs, nowBucket) ==
    IF nowBucket \in DOMAIN map THEN map
    ELSE MapAdd(map, nowBucket, CurrentProfit(hs))

\* portfolioProfitMap before the series is built: the pre-rebaseline accumulator
PortfolioProfitMap(hs, allChartData, now, chartDays) ==
    WithNowBucket(AccumulatedProfitMap(hs, allChartData, now, chartDays),
                  hs, NowBucket(now))

RECURSIVE SortDescending(_)
SortDescending(S) ==
    IF S = {} THEN <<>>
    ELSE LET m == CHOOSE x \in S : \A y \in S : x >= y
         IN  <<m>> \o SortDescending(S \ {m})

\* The timestamps are sorted the wrong way round.
SortedTimestamps_descending(map, windowStart) ==
    SortDescending({timestamp \in DOMAIN map : timestamp >= windowStart})

\* allTimestamps holds exactly the keys of portfolioProfitMap.
SortedTimestamps(map, windowStart) ==
    SortAscending({timestamp \in DOMAIN map : timestamp >= windowStart})

BucketedChartArray(map, windowStart) ==
    LET sortedTimestamps == SortedTimestamps(map, windowStart)
    IN  ArrayOf([i \in 1..Len(sortedTimestamps) |->
                    [timestamp |-> Num(sortedTimestamps[i]),
                     value     |-> map[sortedTimestamps[i]],
                     invested  |-> 0]])

TotalCostBasis(hs) ==
    SumSeq([i \in 1..Len(hs) |-> hs[i].quantity * hs[i].avgBuyPrice])

MaxSparklineLength(hs) ==
    IF Len(hs) = 0 THEN 0
    ELSE CHOOSE m \in {Len(hs[i].sparkline) : i \in 1..Len(hs)} :
             \A i \in 1..Len(hs) : Len(hs[i].sparkline) <= m

\* Math.round(x / y) for x >= 0, y > 0
RoundDiv(x, y) == (2 * x + y) \div (2 * y)

buildPortfolioFallbackSeries(hs, periodDays, now) ==
    LET maxPoints     == MaxSparklineLength(hs)
        minimumPoints == Max(60, periodDays * 2)
        targetPoints  == Max(maxPoints, minimumPoints)
        totalHours    == periodDays * 24
        steps         == Max(1, targetPoints - 1)
        \* stepMs = (totalHours / steps) * ONE_HOUR_MS
        scaledIndex(series, index) ==
            IF Len(series) > 1
            THEN Min(RoundDiv(index * (Len(series) - 1), Max(targetPoints - 1, 1)),
                     Len(series) - 1)
            ELSE 0
        value(index) ==
            SumSeq([h \in 1..Len(hs) |->
                       IF Len(hs[h].sparkline) = 0 THEN 0
                       ELSE hs[h].quantity
                            * hs[h].sparkline[scaledIndex(hs[h].sparkline, index) + 1]])
    IN  IF Len(hs) = 0 \/ maxPoints <= 0 THEN <<>>
        ELSE ArrayOf([i \in 1..targetPoints |->
                 [timestamp |-> Frac(now * steps
                                       - (targetPoints - i) * totalHours * ONE_HOUR_MS,
                                     steps),
                  value     |-> value(i - 1)]])

\* if (!chartArray.length) { base = buildPortfolioFallbackSeries(...) ... }
FallbackChartArray(hs, chartDays, now) ==
    LET base == buildPortfolioFallbackSeries(hs, chartDays, now)
        totalCostBasis == TotalCostBasis(hs)
    IN  ArrayOf([i \in 1..Len(base) |->
                    [timestamp |-> base[i].timestamp,
                     value     |-> base[i].value - totalCostBasis,
                     invested  |-> totalCostBasis]])

\* The baseline is taken from the first point instead of the last.
Rebaseline_first(chartArray) ==
    IF Len(chartArray) = 0 THEN chartArray
    ELSE LET baseline == chartArray[1].value
         IN  ArrayOf([i \in 1..Len(chartArray) |->
                 [chartArray[i] EXCEPT !.value = baseline - chartArray[i].value]])

\* if (chartArray.length) { baseline = last value; value: baseline - value }
Rebaseline(chartArray) ==
    IF Len(chartArray) = 0 THEN chartArray
    ELSE LET baseline == chartArray[Len(chartArray)].value
         IN  ArrayOf([i \in 1..Len(chartArray) |->
                 [chartArray[i] EXCEPT !.value = baseline - chartArray[i].value]])

\* chartArray before the re-baseline step
AbsoluteChartArray(hs, promises, now, chartDays) ==
    LET allChartData == AllChartData(hs, promises, now, chartDays)
        map          == PortfolioProfitMap(hs, allChartData, now, chartDays)
        bucketed     == BucketedChartArray(map, WindowStart(now, chartDays))
    IN  IF Len(bucketed) = 0 THEN FallbackChartArray(hs, chartDays, now)
        ELSE bucketed

\* The points of the run are appended to the series of the run before it.
ChartArray_keepsPrevious(hs, promises, now, chartDays) ==
    chartData \o Rebaseline(AbsoluteChartArray(hs, promises, now, chartDays))

\* The array handed to setChartData by a run that reaches line 986.
ChartArray(hs, promises, now, chartDays) ==
    Rebaseline(AbsoluteChartArray(hs, promises, now, chartDays))

\* The array the empty-holdings path sets (lines 816-829).
EmptyHoldingsChart(now) ==
    << [timestamp |-> Num(now), value |-> 0, invested |-> 0] >>

----------------------------------------------------------------------------
(* The inputs the checks range over.                                       *)

MaxHoldings == 2

ApiHolding(id, quantity, avgPrice) ==
    [coin_id |-> id, quantity |-> Num(quantity), avg_price |-> Num(avgPrice)]

MarketEntry(id, price, sparklinePrices) ==
    [id |-> id, current_price |-> Num(price), ch24h |-> Num(2), ch7d |-> JSNull,
     sparkline |-> [isArray |-> TRUE,
                    items |-> ArrayOf([i \in 1..Len(sparklinePrices) |->
                                          Num(sparklinePrices[i])])]]

\* Positions the backend may return: "a" and "b" are open, "c" is closed.
ApiCatalogue ==
    << ApiHolding("a", 2, 10), ApiHolding("b", 1, 5), ApiHolding("c", 0, 4) >>

\* The quotes of fetchMarketsByIds: "a" has a 7-day sparkline, "b" and "c" none.
MarketData ==
    << MarketEntry("a", 12, <<11, 13, 12>>), MarketEntry("b", 6, <<>>),
       MarketEntry("c", 4, <<>>) >>

IsIncreasing(s) == \A i, j \in 1..Len(s) : i < j => s[i] < s[j]

\* The payloads of /api/portfolio/: up to MaxHoldings distinct positions, in
\* the order of the catalogue.
ApiPayloads ==
    LET picks == UNION {[1..n -> 1..Len(ApiCatalogue)] : n \in 0..MaxHoldings}
    IN  {ArrayOf([i \in 1..Len(s) |-> ApiCatalogue[s[i]]]) :
            s \in {s \in picks : IsIncreasing(s)}}

\* What loadPortfolio hands to setHoldings for a payload (usdConversion = 1).
EnrichedHoldings(payload) ==
    mergeHoldingsWithMarket(normalizeHoldingsFromApi(payload), MarketData, 1)

HoldingLists == {EnrichedHoldings(payload) : payload \in ApiPayloads}

Timeframes == {"7", "30"}

\* Date.now(): midnight UTC of day 40, and 10:00 of that day.
Nows == {40 * 24 * ONE_HOUR_MS, 40 * 24 * ONE_HOUR_MS + 10 * ONE_HOUR_MS}

Point(timestamp, price) == << Num(timestamp), Num(price) >>

DayMs == 24 * ONE_HOUR_MS

\* The price arrays the provider may answer with, relative to now: empty,
\* older than the window, inside it, at now, later than now, out of order,
\* two samples in one day.
HistoryCases(now) ==
    { <<>>,
      << Point(now - 40 * DayMs, 7) >>,
      << Point(now - 2 * DayMs, 8) >>,
      << Point(now, 9) >>,
      << Point(now + 30 * ONE_HOUR_MS, 20) >>,
      << Point(now - 1 * DayMs, 11), Point(now - 3 * DayMs, 7) >>,
      << Point(now - 2 * DayMs, 8), Point(now - 2 * DayMs + ONE_HOUR_MS, 5) >> }

Failure == [settled |-> TRUE, ok |-> FALSE, prices |-> <<>>]

Success(prices) == [settled |-> TRUE, ok |-> TRUE, prices |-> prices]

Pending == [settled |-> FALSE, ok |-> FALSE, prices |-> <<>>]

\* The outcomes of one market_chart request.
Responses(now) == {Failure} \cup {Success(prices) : prices \in HistoryCases(now)}

----------------------------------------------------------------------------
(* The chart effect (Portfolio.jsx:812-1006) as a state machine.           *)

\* The effect runs after a render in which a dependency changed: the cleanup
\* of the previous effect sets its cancel flag, then fetchChartData is called
\* and runs to its first await.
ChartEffect ==
    /\ effectPending
    /\ effectPending' = FALSE
    /\ LET cancelled == ArrayOf([r \in 1..Len(chartRuns) |->
                                    [chartRuns[r] EXCEPT !.cancel = TRUE]])
       IN  IF Len(holdings) = 0
           THEN /\ chartLoading' = FALSE
                /\ chartError' = NoError
                /\ chartData' = EmptyHoldingsChart(nowTs)
                /\ chartRuns' = Append(cancelled,
                       [holdings |-> holdings, chartDays |-> ChartDays(chartTimeframe),
                        cancel |-> FALSE, pc |-> "done", responses |-> <<>>,
                        result |-> EmptyHoldingsChart(nowTs), error |-> NoError,
                        overtaken |-> FALSE])
           ELSE /\ chartError' = NoError
                /\ chartLoading' = TRUE
                /\ chartData' = chartData
                /\ chartRuns' = Append(cancelled,
                       [holdings |-> holdings, chartDays |-> ChartDays(chartTimeframe),
                        cancel |-> FALSE, pc |-> "fetching",
                        responses |-> ArrayOf([i \in 1..Len(holdings) |-> Pending]),
                        result |-> <<>>, error |-> NoError, overtaken |-> FALSE])
    /\ UNCHANGED <<holdings, chartTimeframe, nowTs, loadVars, callVars, pagesVars>>

\* The market_chart request of holding i of run r settles.
Respond(r, i, resp) ==
    /\ r \in 1..Len(chartRuns)
    /\ chartRuns[r].pc = "fetching"
    /\ i \in 1..Len(chartRuns[r].responses)
    /\ ~chartRuns[r].responses[i].settled
    /\ chartRuns' = [chartRuns EXCEPT ![r].responses[i] = resp]
    /\ UNCHANGED <<holdings, chartTimeframe, chartData, chartLoading, chartError,
                   effectPending, nowTs, loadVars, callVars, pagesVars>>

\* The promises of a run, after fetchMarketChart and the call site's catch.
Promises(run) ==
    ArrayOf([i \in 1..Len(run.responses) |-> chartPromise(run.responses[i])])

\* chartArray.length ? null : hadChartErrors ? ... : ...
ChartErrorFor(chartArray, hadChartErrors) ==
    IF Len(chartArray) > 0 THEN NoError
    ELSE IF hadChartErrors THEN "Unable to load chart data right now"
    ELSE "No unrealised profit data available yet"

\* The guard of line 986 is missing: a cancelled run also sets chartData.
WritesChartData_unguarded(run) == TRUE

\* if (!cancel) setChartData(...)
WritesChartData(run) == ~run.cancel

\* Promise.all settles and fetchChartData runs to its end (lines 855-999).
Finish(r) ==
    /\ r \in 1..Len(chartRuns)
    /\ chartRuns[r].pc = "fetching"
    /\ \A i \in 1..Len(chartRuns[r].responses) : chartRuns[r].responses[i].settled
    /\ LET run        == chartRuns[r]
           promises   == Promises(run)
           thrown     == \E i \in 1..Len(promises) : promises[i].rejected
           hadChartErrors == \E i \in 1..Len(promises) : promises[i].hadError
           chartArray == IF thrown THEN <<>>
                         ELSE ChartArray(run.holdings, promises, nowTs, run.chartDays)
           message    == IF thrown THEN "Failed to load profit chart"
                         ELSE ChartErrorFor(chartArray, hadChartErrors)
       IN  /\ chartError' = IF thrown /\ run.cancel THEN chartError ELSE message
           /\ chartData' = IF WritesChartData(run) THEN chartArray ELSE chartData
           /\ chartLoading' = IF run.cancel THEN chartLoading ELSE FALSE
           /\ chartRuns' = [chartRuns EXCEPT
                  ![r].pc = "done",
                  ![r].result = chartArray,
                  ![r].error = message,
                  \* history: a run started later had already finished
                  ![r].overtaken = \E q \in (r + 1)..Len(chartRuns) :
                                       chartRuns[q].pc = "done"]
    /\ UNCHANGED <<holdings, chartTimeframe, effectPending, nowTs, loadVars, callVars, pagesVars>>

----------------------------------------------------------------------------
(* The coin search of the add-holding modal (Portfolio.jsx:514-601).       *)
(* Text is a sequence of characters, so that trim() and toUpperCase() are  *)
(* computed rather than assumed.                                           *)

MaxSearches == 3

MaxPriceFetches == 1

Space == " "

\* String.prototype.trim, leading part
RECURSIVE trimStart(_)
trimStart(s) ==
    IF Len(s) > 0 /\ Head(s) = Space THEN trimStart(Tail(s)) ELSE s

\* String.prototype.trim, trailing part
RECURSIVE trimEnd(_)
trimEnd(s) ==
    IF Len(s) > 0 /\ s[Len(s)] = Space
    THEN trimEnd(SubSeq(s, 1, Len(s) - 1))
    ELSE s

trim(s) == trimEnd(trimStart(s))

\* The coins the search service knows, in the order it ranks them.
CoinCatalog ==
    << [id |-> "btc", name |-> <<"b", "t", "c">>],
       [id |-> "bts", name |-> <<"b", "t", "s">>],
       [id |-> "eth", name |-> <<"e", "t", "h">>] >>

\* What the user can have in the search box.
Queries ==
    { <<>>, <<"b">>, <<"b", "t">>, <<"b", Space>>, <<Space, "b", "t">>,
      <<"b", "t", "c">>, <<"e", "t">> }

IsPrefix(p, s) == Len(p) <= Len(s) /\ SubSeq(s, 1, Len(p)) = p

\* data.coins of the search service for a trimmed query
Matches(trimmed) ==
    LET hit(coin) == IsPrefix(trimmed, coin.name)
    IN  SelectSeq(CoinCatalog, hit)

\* What the search service answers: the matches, or a response that is not ok.
SearchReplies(query) ==
    { [ok |-> TRUE, coins |-> Matches(trim(query))], [ok |-> FALSE, coins |-> <<>>] }

\* searchCoins(query) once the service has answered with reply
searchCoins(query, reply) ==
    IF trim(query) = <<>> THEN <<>>
    ELSE IF ~reply.ok THEN <<>>
    ELSE reply.coins

EmptyForm ==
    [newCryptoId |-> "", newCryptoName |-> <<>>, newQuantity |-> "",
     newBuyPrice |-> "", newTotalCost |-> "", selectedCoinPrice |-> JSNull]

\* Number.prototype.toString of a price: text, not the number itself
NumberToString(value) == [t |-> "string", n |-> value.n, d |-> value.d]

\* The modal and its search at rest, before the page has mounted.
SearchIdle ==
    /\ showAddModal = FALSE
    /\ searchQuery = <<>>
    /\ searchResults = <<>>
    /\ showSearchResults = FALSE
    /\ searchLoading = FALSE
    /\ searches = <<>>
    /\ addForm = EmptyForm
    /\ priceFetches = <<>>

\* The search effect reruns: the cleanup cancels the previous instance and
\* clears its timer, then a new 300 ms timer is set for the new query.
RerunSearchEffect(query) ==
    LET cleaned == [i \in 1..Len(searches) |->
                       [searches[i] EXCEPT
                           !.cancel = TRUE,
                           !.phase = IF @ = "timer" THEN "cleared" ELSE @]]
    IN  (cleaned \o << >>) \o
            << [query |-> query, cancel |-> FALSE, phase |-> "timer"] >>

\* setSearchQuery(query) followed by the render: the effect reruns only when
\* the query changed.
SearchesAfterQuery(query) ==
    IF query = searchQuery THEN searches ELSE RerunSearchEffect(query)

CanSetQuery(query) == query = searchQuery \/ Len(searches) < MaxSearches

\* onClick of "Add Crypto": setShowAddModal(true)
OpenModal ==
    /\ ~showAddModal
    /\ showAddModal' = TRUE
    /\ UNCHANGED <<searchQuery, searchResults, showSearchResults, searchLoading,
                   searches, addForm, priceFetches>>
    /\ UNCHANGED <<portfolioVars, currencyVars, dashVars>>

\* onChange of the search box: setSearchQuery(e.target.value)
EditQuery ==
    /\ showAddModal
    /\ \E query \in Queries :
           /\ query # searchQuery
           /\ CanSetQuery(query)
           /\ searchQuery' = query
           /\ searches' = RerunSearchEffect(query)
    /\ UNCHANGED <<showAddModal, searchResults, showSearchResults, searchLoading,
                   addForm, priceFetches>>
    /\ UNCHANGED <<portfolioVars, currencyVars, dashVars>>

\* The debounce timer of instance i fires: performSearch up to its await.
\* A query shorter than 2 characters clears the results and returns.
DebounceFires ==
    /\ \E i \in 1..Len(searches) :
           /\ searches[i].phase = "timer"
           /\ LET query == searches[i].query
              IN  IF trim(query) = <<>> \/ Len(trim(query)) < 2
                  THEN /\ searchResults' = <<>>
                       /\ showSearchResults' = FALSE
                       /\ searchLoading' = searchLoading
                       /\ searches' = [searches EXCEPT ![i].phase = "done"]
                  ELSE /\ searchLoading' = TRUE
                       /\ searches' = [searches EXCEPT ![i].phase = "waiting"]
                       /\ UNCHANGED <<searchResults, showSearchResults>>
    /\ UNCHANGED <<showAddModal, searchQuery, addForm, priceFetches>>
    /\ UNCHANGED <<portfolioVars, currencyVars, dashVars>>

\* searchCoins of instance i resolves: the rest of performSearch.  searchCoins
\* catches every failure itself, so the catch branch is never taken.
SearchResponds ==
    /\ \E i \in 1..Len(searches) :
           /\ searches[i].phase = "waiting"
           /\ \E reply \in SearchReplies(searches[i].query) :
                  LET results == searchCoins(searches[i].query, reply)
                  IN  IF searches[i].cancel
                      THEN UNCHANGED <<searchResults, showSearchResults,
                                       searchLoading>>
                      ELSE /\ searchResults' = results
                           /\ showSearchResults' = (Len(results) > 0)
                           /\ searchLoading' = FALSE
           /\ searches' = [searches EXCEPT ![i].phase = "done"]
    /\ UNCHANGED <<showAddModal, searchQuery, addForm, priceFetches>>
    /\ UNCHANGED <<portfolioVars, currencyVars, dashVars>>

\* handleSelectCoin(coin) up to its await.  The quantity field is not edited
\* in this model, so the total-cost update of the continuation never applies.
handleSelectCoin ==
    /\ showAddModal
    /\ showSearchResults
    /\ Len(priceFetches) < MaxPriceFetches
    /\ \E k \in 1..Len(searchResults) :
           LET coin == searchResults[k]
           IN  /\ CanSetQuery(coin.name)
               /\ addForm' = [addForm EXCEPT !.newCryptoId = coin.id,
                                             !.newCryptoName = coin.name]
               /\ searchQuery' = coin.name
               /\ searches' = SearchesAfterQuery(coin.name)
               /\ priceFetches' = Append(priceFetches,
                                         [id |-> coin.id, phase |-> "waiting"])
    /\ showSearchResults' = FALSE
    /\ UNCHANGED <<showAddModal, searchResults, searchLoading>>
    /\ UNCHANGED <<portfolioVars, currencyVars, dashVars>>

\* What fetchMarketsByIds can resolve to for one id: a failure, no row, a row
\* without a price, a row with a price.
PriceReplies ==
    { [ok |-> FALSE, rows |-> <<>>],
      [ok |-> TRUE, rows |-> <<>>],
      [ok |-> TRUE, rows |-> << [current_price |-> JSNull] >>],
      [ok |-> TRUE, rows |-> << [current_price |-> Num(12)] >>] }

\* fetchMarketsByIds of handleSelectCoin resolves: the rest of the handler.
PriceResponds ==
    /\ \E k \in 1..Len(priceFetches) :
           /\ priceFetches[k].phase = "waiting"
           /\ priceFetches' = [priceFetches EXCEPT ![k].phase = "done"]
           /\ \E reply \in PriceReplies :
                  IF /\ reply.ok
                     /\ Len(reply.rows) > 0
                     /\ reply.rows[1].current_price.t = "number"
                     /\ reply.rows[1].current_price.n # 0
                  THEN addForm' =
                           [addForm EXCEPT
                               !.selectedCoinPrice = reply.rows[1].current_price,
                               !.newBuyPrice =
                                   NumberToString(reply.rows[1].current_price)]
                  ELSE addForm' = addForm
    /\ UNCHANGED <<showAddModal, searchQuery, searchResults, showSearchResults,
                   searchLoading, searches>>
    /\ UNCHANGED <<portfolioVars, currencyVars, dashVars>>

\* handleCloseModal: every field of the modal is reset; searchLoading is not.
handleCloseModal ==
    /\ showAddModal
    /\ CanSetQuery(<<>>)
    /\ showAddModal' = FALSE
    /\ addForm' = EmptyForm
    /\ searchQuery' = <<>>
    /\ searchResults' = <<>>
    /\ showSearchResults' = FALSE
    /\ searches' = SearchesAfterQuery(<<>>)
    /\ UNCHANGED <<searchLoading, priceFetches>>
    /\ UNCHANGED <<portfolioVars, currencyVars, dashVars>>

----------------------------------------------------------------------------
(* useUserCurrency (services/coingecko.js:309-352) and the profile page    *)
(* that dispatches the currency-changed event (Profile, handleSubmit).     *)

MaxCurrencyLoads == 2

MaxSaves == 2

DEFAULT_CURRENCY == <<"U", "S", "D">>

EUR == <<"E", "U", "R">>

NoCurrency == <<"n", "u", "l", "l">>

\* String.prototype.toUpperCase on the letters the model uses
UpperOf(c) ==
    CASE c = "e" -> "E"
      [] c = "u" -> "U"
      [] c = "r" -> "R"
      [] c = "s" -> "S"
      [] c = "d" -> "D"
      [] OTHER -> c

toUpperCase(s) == ([i \in 1..Len(s) |-> UpperOf(s[i])]) \o << >>

\* normaliseCurrency(value): not a string, or blank, is the default
normaliseCurrency(value) ==
    IF value = NoCurrency \/ trim(value) = <<>>
    THEN DEFAULT_CURRENCY
    ELSE toUpperCase(trim(value))

\* preferred_currency as the backend can hold it
StoredCurrencies == {NoCurrency, DEFAULT_CURRENCY, EUR, <<"e", "u", "r">>}

\* The options of the currency select of the profile page
SelectCurrencies == {DEFAULT_CURRENCY, EUR}

NoEvent == <<"n", "o", "n", "e">>

\* The hook and the profile page at rest, before either has mounted.
CurrencyIdle ==
    /\ currency = DEFAULT_CURRENCY
    /\ profile = NoCurrency
    /\ currencyLoads = <<>>
    /\ profilePage = [settings |-> NoCurrency, originalSettings |-> NoCurrency,
                      fetching |-> FALSE]
    /\ saves = <<>>
    /\ lastEvent = NoEvent
    /\ eventCount = 0

\* The load effect of the hook runs: loadCurrency() sends its request.
StartLoadCurrency ==
    Append([i \in 1..Len(currencyLoads) |->
               [currencyLoads[i] EXCEPT !.cancelled = TRUE]] \o << >>,
           [cancelled |-> FALSE, phase |-> "sent", ok |-> FALSE,
            payload |-> NoCurrency, events |-> eventCount])

\* authFetch changes identity (the access token was renewed): the hook's
\* load effect and the profile page's fetchProfile effect both rerun.
AuthFetchChanges ==
    /\ Len(currencyLoads) < MaxCurrencyLoads
    /\ currencyLoads' = StartLoadCurrency
    /\ profilePage' = [profilePage EXCEPT !.fetching = TRUE]
    /\ UNCHANGED <<currency, profile, saves, lastEvent, eventCount>>
    /\ UNCHANGED <<portfolioVars, searchVars, dashVars>>

\* The backend answers GET /api/accounts/profile/ of load i, or fails.
ServeProfile ==
    /\ \E i \in 1..Len(currencyLoads) :
           /\ currencyLoads[i].phase = "sent"
           /\ \E ok \in BOOLEAN :
                  currencyLoads' =
                      [currencyLoads EXCEPT
                          ![i].phase = "served",
                          ![i].ok = ok,
                          ![i].payload = IF ok THEN profile ELSE NoCurrency]
    /\ UNCHANGED <<currency, profile, profilePage, saves, lastEvent, eventCount>>
    /\ UNCHANGED <<portfolioVars, searchVars, dashVars>>

\* The response of load i arrives: the rest of loadCurrency.
CompleteLoadCurrency ==
    /\ \E i \in 1..Len(currencyLoads) :
           /\ currencyLoads[i].phase = "served"
           /\ currencyLoads' = [currencyLoads EXCEPT ![i].phase = "done"]
           /\ currency' =
                  IF currencyLoads[i].cancelled THEN currency
                  ELSE IF currencyLoads[i].ok
                       THEN normaliseCurrency(currencyLoads[i].payload)
                       ELSE DEFAULT_CURRENCY
    /\ UNCHANGED <<profile, profilePage, saves, lastEvent, eventCount>>
    /\ UNCHANGED <<portfolioVars, searchVars, dashVars>>

\* fetchProfile of the profile page resolves (request and answer in one
\* step): on success settings and originalSettings are the stored profile.
fetchProfile ==
    /\ profilePage.fetching
    /\ \E ok \in BOOLEAN :
           LET stored == IF profile = NoCurrency \/ profile = <<>>
                         THEN DEFAULT_CURRENCY ELSE profile
           IN  profilePage' =
                   IF ok
                   THEN [settings |-> stored, originalSettings |-> stored,
                         fetching |-> FALSE]
                   ELSE [profilePage EXCEPT !.fetching = FALSE]
    /\ UNCHANGED <<currency, profile, currencyLoads, saves, lastEvent, eventCount>>
    /\ UNCHANGED <<portfolioVars, searchVars, dashVars>>

\* handleChange("currency", value) of the currency select
handleChange ==
    /\ profilePage.settings # NoCurrency
    /\ \E value \in SelectCurrencies :
           /\ value # profilePage.settings
           /\ profilePage' = [profilePage EXCEPT !.settings = value]
    /\ UNCHANGED <<currency, profile, currencyLoads, saves, lastEvent, eventCount>>
    /\ UNCHANGED <<portfolioVars, searchVars, dashVars>>

\* handleSubmit up to its await: the PUT carries the settings of this render.
handleSubmit ==
    /\ profilePage.settings # NoCurrency
    /\ Len(saves) < MaxSaves
    /\ saves' = Append(saves, [nextCurrency |-> profilePage.settings,
                               prevCurrency |-> profilePage.originalSettings,
                               phase |-> "sent", ok |-> FALSE])
    /\ UNCHANGED <<currency, profile, currencyLoads, profilePage, lastEvent,
                   eventCount>>
    /\ UNCHANGED <<portfolioVars, searchVars, dashVars>>

\* The backend handles PUT /api/accounts/profile/ of save i, or fails.
ServeSave ==
    /\ \E i \in 1..Len(saves) :
           /\ saves[i].phase = "sent"
           /\ \E ok \in BOOLEAN :
                  /\ saves' = [saves EXCEPT ![i].phase = "served", ![i].ok = ok]
                  /\ profile' = IF ok THEN saves[i].nextCurrency ELSE profile
    /\ UNCHANGED <<currency, currencyLoads, profilePage, lastEvent, eventCount>>
    /\ UNCHANGED <<portfolioVars, searchVars, dashVars>>

\* The handler of the hook's second effect, run by dispatchEvent
CurrencyAfterEvent(detail) ==
    LET next == normaliseCurrency(detail)
    IN  IF next # currency THEN next ELSE currency

\* The response of save i arrives: the rest of handleSubmit.  The event is
\* dispatched, and handled synchronously, when the currency changed.
FinishSave ==
    /\ \E i \in 1..Len(saves) :
           /\ saves[i].phase = "served"
           /\ saves' = [saves EXCEPT ![i].phase = "done"]
           /\ IF ~saves[i].ok
              THEN UNCHANGED <<currency, profilePage, lastEvent, eventCount>>
              ELSE /\ profilePage' =
                          [profilePage EXCEPT
                              !.originalSettings = saves[i].nextCurrency]
                   /\ IF saves[i].nextCurrency # saves[i].prevCurrency
                      THEN /\ currency' = CurrencyAfterEvent(saves[i].nextCurrency)
                           /\ lastEvent' = saves[i].nextCurrency
                           /\ eventCount' = eventCount + 1
                      ELSE UNCHANGED <<currency, lastEvent, eventCount>>
    /\ UNCHANGED <<profile, currencyLoads>>
    /\ UNCHANGED <<portfolioVars, searchVars, dashVars>>

----------------------------------------------------------------------------
(* The coin table of the dashboard and its pager (Dashboard.jsx).          *)

MaxCoins == 25

MaxCoinLoads == 3

PAGE_SIZE == 10

\* Math.ceil(a / b) for a >= 0, b > 0
CeilDiv(a, b) == (a + b - 1) \div b

\* const totalPages = Math.max(1, Math.ceil(allCoins.length / PAGE_SIZE))
totalPages == Max(1, CeilDiv(Len(allCoins), PAGE_SIZE))

\* pageRows: allCoins.slice(start, start + PAGE_SIZE)
pageRows ==
    LET start == (page - 1) * PAGE_SIZE
    IN  SubSeq(allCoins, start + 1, Min(Len(allCoins), start + PAGE_SIZE))

\* The rows fetchMarketsViaProxy resolves to, by rank; raw.map keeps one row
\* per coin, so only the number of rows matters to the pager.
MarketRows(count) == ([i \in 1..count |-> [id |-> i]]) \o << >>

NoCoinsError == "null"

\* The dashboard at rest, before it has mounted.
DashboardIdle ==
    /\ page = 1
    /\ allCoins = <<>>
    /\ loadingCoins = TRUE
    /\ coinsError = NoCoinsError
    /\ coinEffect = 0
    /\ coinLoads = <<>>

\* userCurrency or fetchMarketsViaProxy changed: the cleanup cancels the
\* previous instance and the effect calls loadTopCoins, which runs up to
\* its await.
CoinsEffect ==
    /\ coinEffect' = coinEffect + 1
    /\ Len(coinLoads) < MaxCoinLoads
    /\ loadingCoins' = TRUE
    /\ coinsError' = NoCoinsError
    /\ coinLoads' = Append(coinLoads, [effect |-> coinEffect + 1, phase |-> "waiting"])
    /\ UNCHANGED <<page, allCoins>>
    /\ UNCHANGED <<portfolioVars, searchVars, currencyVars>>

\* setInterval(loadTopCoins, 5 * 60 * 1000) of the current instance:
\* loadTopCoins up to its await
CoinsIntervalTick ==
    /\ coinEffect > 0
    /\ Len(coinLoads) < MaxCoinLoads
    /\ loadingCoins' = TRUE
    /\ coinsError' = NoCoinsError
    /\ coinLoads' = Append(coinLoads, [effect |-> coinEffect, phase |-> "waiting"])
    /\ UNCHANGED <<page, allCoins, coinEffect>>
    /\ UNCHANGED <<portfolioVars, searchVars, currencyVars>>

\* fetchMarketsViaProxy of load l resolves or throws: the rest of loadTopCoins
CoinsRespond ==
    /\ \E l \in 1..Len(coinLoads) :
           /\ coinLoads[l].phase = "waiting"
           /\ coinLoads' = [coinLoads EXCEPT ![l].phase = "done"]
           /\ IF coinLoads[l].effect # coinEffect
              THEN UNCHANGED <<allCoins, coinsError, loadingCoins>>
              ELSE /\ loadingCoins' = FALSE
                   /\ \/ /\ \E count \in 0..MaxCoins :
                                allCoins' = MarketRows(count)
                         /\ UNCHANGED coinsError
                      \/ /\ allCoins' = <<>>
                         /\ coinsError' = "Failed to load market data"
    /\ UNCHANGED <<page, coinEffect>>
    /\ UNCHANGED <<portfolioVars, searchVars, currencyVars>>

\* onClick of Prev (disabled on page 1): setPage((p) => Math.max(1, p - 1))
PrevPage ==
    /\ page # 1
    /\ page' = Max(1, page - 1)
    /\ UNCHANGED <<allCoins, loadingCoins, coinsError, coinEffect, coinLoads>>
    /\ UNCHANGED <<portfolioVars, searchVars, currencyVars>>

\* onClick of Next (disabled on the last page):
\* setPage((p) => Math.min(totalPages, p + 1))
NextPage ==
    /\ page # totalPages
    /\ page' = Min(totalPages, page + 1)
    /\ UNCHANGED <<allCoins, loadingCoins, coinsError, coinEffect, coinLoads>>
    /\ UNCHANGED <<portfolioVars, searchVars, currencyVars>>

----------------------------------------------------------------------------
(* The parts of the application outside the portfolio page at rest.        *)

PagesIdle ==
    /\ SearchIdle
    /\ CurrencyIdle
    /\ DashboardIdle

----------------------------------------------------------------------------
(* SpecChart: one run of the reconstruction on every input of the bounds.  *)

\* No helper function has been applied on its own.
NoCall ==
    /\ called = "none"
    /\ calledWith = <<>>
    /\ returned = <<>>

\* The portfolio loader at rest: nothing in flight, holdings as loaded.
LoaderIdle ==
    /\ loading = FALSE
    /\ error = NoError
    /\ server = {}
    /\ loadEffects = <<>>
    /\ loads = <<>>
    /\ trades = <<>>
    /\ fetchSeq = 0
    /\ loadEffectPending = FALSE

InitChart ==
    /\ holdings \in HoldingLists
    /\ chartTimeframe \in Timeframes
    /\ nowTs \in Nows
    /\ chartData = <<>>
    /\ chartLoading = FALSE
    /\ chartError = NoError
    /\ chartRuns = <<>>
    /\ effectPending = TRUE
    /\ LoaderIdle
    /\ NoCall
    /\ PagesIdle

RespondChart ==
    \E r \in 1..Len(chartRuns) : \E i \in 1..Len(chartRuns[r].responses) :
        \E resp \in Responses(nowTs) : Respond(r, i, resp)

FinishChart == \E r \in 1..Len(chartRuns) : Finish(r)

NextChart == ChartEffect \/ RespondChart \/ FinishChart

SpecChart == InitChart /\ [][NextChart]_vars

----------------------------------------------------------------------------
(* SpecRuns: the chart effect re-runs while earlier runs are in flight.    *)

MaxChartRuns == 2

\* The holdings a load or a trade may store while the chart is being drawn.
RunsHoldingLists ==
    { EnrichedHoldings(<<>>),
      EnrichedHoldings(<< ApiCatalogue[1] >>),
      EnrichedHoldings(<< ApiCatalogue[2] >>) }

\* The outcomes of one market_chart request in SpecRuns.
RunsResponses(now) == {Failure, Success(<< Point(now - 2 * DayMs, 8) >>)}

\* A further run of the effect stays within MaxChartRuns.
MayRerun == Len(chartRuns) + (IF effectPending THEN 1 ELSE 0) < MaxChartRuns

\* setHoldings(...) of loadPortfolio, handleAddCrypto or handleSellCrypto:
\* holdings is a dependency of the chart effect.
HoldingsChange ==
    /\ MayRerun
    /\ \E hs \in RunsHoldingLists :
           /\ hs # holdings
           /\ holdings' = hs
    /\ effectPending' = TRUE
    /\ UNCHANGED <<chartTimeframe, chartData, chartLoading, chartError, chartRuns,
                   nowTs, loadVars, callVars, pagesVars>>

\* onClick of a timeframe button: setChartTimeframe(tf.id)
SelectTimeframe ==
    /\ MayRerun
    /\ \E timeframe \in Timeframes :
           /\ timeframe # chartTimeframe
           /\ chartTimeframe' = timeframe
    /\ effectPending' = TRUE
    /\ UNCHANGED <<holdings, chartData, chartLoading, chartError, chartRuns,
                   nowTs, loadVars, callVars, pagesVars>>

InitRuns ==
    /\ holdings \in RunsHoldingLists
    /\ chartTimeframe = "7"
    /\ nowTs = 40 * 24 * ONE_HOUR_MS + 10 * ONE_HOUR_MS
    /\ chartData = <<>>
    /\ chartLoading = FALSE
    /\ chartError = NoError
    /\ chartRuns = <<>>
    /\ effectPending = TRUE
    /\ LoaderIdle
    /\ NoCall
    /\ PagesIdle

RespondRuns ==
    \E r \in 1..Len(chartRuns) : \E i \in 1..Len(chartRuns[r].responses) :
        \E resp \in RunsResponses(nowTs) : Respond(r, i, resp)

NextRuns ==
    ChartEffect \/ RespondRuns \/ FinishChart \/ HoldingsChange \/ SelectTimeframe

SpecRuns == InitRuns /\ [][NextRuns]_vars

----------------------------------------------------------------------------
(* SpecLoad: the portfolio loader (Portfolio.jsx:434-486) with its 2-minute *)
(* interval, and the buy and sell handlers that also store holdings.       *)

MaxLoads == 3

MaxLoadEffects == 2

MaxTrades == 1

\* The coins a trade may concern: positions "a" and "b" of the catalogue.
TradeCoins == {1, 2}

\* payload.holdings of GET /api/portfolio/ for the positions on the server
ServerPayload(positions) ==
    LET order == SortAscending(positions)
    IN  ArrayOf([i \in 1..Len(order) |-> ApiCatalogue[order[i]]])

\* setHoldings(hs); holdings is a dependency of the chart effect.
StoreHoldings(hs) ==
    /\ holdings' = hs
    /\ effectPending' = TRUE

\* loadPortfolio up to its first await: isInitialLoad is read from the
\* holdings the effect instance closed over.
StartLoad(effects, e) ==
    /\ loading' = IF effects[e].isInitialLoad THEN TRUE ELSE loading
    /\ error' = NoError
    /\ fetchSeq' = fetchSeq + 1
    /\ loads' = Append(loads, [effect |-> e, seq |-> fetchSeq + 1,
                               pc |-> "fetchPortfolio", payload |-> <<>>])

\* The load effect runs: the cleanup of the previous instance sets its cancel
\* flag and clears its interval; loadPortfolio is called once at once.
LoadEffect ==
    /\ loadEffectPending
    /\ loadEffectPending' = FALSE
    /\ LET cancelled == ArrayOf([e \in 1..Len(loadEffects) |->
                                    [loadEffects[e] EXCEPT !.cancel = TRUE]])
           effects   == Append(cancelled,
                               [cancel |-> FALSE, isInitialLoad |-> Len(holdings) = 0])
       IN  /\ loadEffects' = effects
           /\ StartLoad(effects, Len(effects))
    /\ UNCHANGED <<holdings, effectPending, chartVars, callVars, pagesVars, server, trades>>

\* setInterval(loadPortfolio, 2 * 60 * 1000) fires for the live effect instance.
IntervalTick ==
    /\ ~loadEffectPending
    /\ Len(loadEffects) > 0
    /\ Len(loads) < MaxLoads
    /\ StartLoad(loadEffects, Len(loadEffects))
    /\ UNCHANGED <<holdings, effectPending, chartVars, callVars, pagesVars, server, loadEffects, trades,
                   loadEffectPending>>

\* A dependency of the load effect changes (currency, conversion rate); a
\* currency change is also a dependency of the chart effect.
DepsChange ==
    /\ ~loadEffectPending
    /\ Len(loadEffects) > 0
    /\ Len(loadEffects) < MaxLoadEffects
    /\ Len(loads) < MaxLoads
    /\ loadEffectPending' = TRUE
    /\ effectPending' \in {effectPending, TRUE}
    /\ UNCHANGED <<holdings, chartVars, callVars, pagesVars, loading, error, server, loadEffects, loads,
                   trades, fetchSeq>>

LoadCancelled(l) == loadEffects[loads[l].effect].cancel

LoadInitial(l) == loadEffects[loads[l].effect].isInitialLoad

\* fetchPortfolio of load l resolves (lines 443-453).
PortfolioResponds(l) ==
    /\ l \in 1..Len(loads)
    /\ loads[l].pc = "fetchPortfolio"
    /\ LET payload       == ServerPayload(server)
           savedHoldings == normalizeHoldingsFromApi(payload)
       IN  IF Len(savedHoldings) = 0
           THEN /\ loads' = [loads EXCEPT ![l].pc = "done", ![l].payload = payload]
                /\ IF LoadCancelled(l)
                   THEN UNCHANGED <<holdings, effectPending, loading>>
                   ELSE /\ StoreHoldings(<<>>)
                        /\ loading' = IF LoadInitial(l) THEN FALSE ELSE loading
           ELSE /\ loads' = [loads EXCEPT ![l].pc = "fetchMarkets",
                                          ![l].payload = payload]
                /\ UNCHANGED <<holdings, effectPending, loading>>
    /\ UNCHANGED <<chartVars, callVars, pagesVars, error, server, loadEffects, trades, fetchSeq,
                   loadEffectPending>>

\* fetchPortfolio of load l rejects: catch and finally (lines 472-477).
PortfolioFails(l) ==
    /\ l \in 1..Len(loads)
    /\ loads[l].pc = "fetchPortfolio"
    /\ loads' = [loads EXCEPT ![l].pc = "failed"]
    /\ error' = IF LoadCancelled(l) THEN error ELSE "Failed to load portfolio"
    /\ loading' = IF ~LoadCancelled(l) /\ LoadInitial(l) THEN FALSE ELSE loading
    /\ UNCHANGED <<holdings, effectPending, chartVars, callVars, pagesVars, server, loadEffects, trades,
                   fetchSeq, loadEffectPending>>

\* fetchMarketsByIds of load l resolves (lines 455-477).
MarketsRespond(l) ==
    /\ l \in 1..Len(loads)
    /\ loads[l].pc = "fetchMarkets"
    /\ loads' = [loads EXCEPT ![l].pc = "done"]
    /\ IF LoadCancelled(l)
       THEN UNCHANGED <<holdings, effectPending>>
       ELSE StoreHoldings(EnrichedHoldings(loads[l].payload))
    /\ loading' = IF ~LoadCancelled(l) /\ LoadInitial(l) THEN FALSE ELSE loading
    /\ UNCHANGED <<chartVars, callVars, pagesVars, error, server, loadEffects, trades, fetchSeq,
                   loadEffectPending>>

TradeInFlight == \E t \in 1..Len(trades) : trades[t].pc # "done"

Holds(coin) == \E i \in 1..Len(holdings) : holdings[i].id = ApiCatalogue[coin].coin_id

NewTrade(kind, coin) ==
    [kind |-> kind, coin |-> coin, pc |-> "order", seq |-> 0, payload |-> <<>>]

\* handleAddCrypto passes its checks and sends the buy order (lines 642-669).
handleAddCrypto ==
    /\ ~loadEffectPending
    /\ Len(trades) < MaxTrades
    /\ ~TradeInFlight
    /\ \E coin \in TradeCoins :
           /\ coin \notin server
           /\ trades' = Append(trades, NewTrade("buy", coin))
    /\ UNCHANGED <<holdings, effectPending, chartVars, callVars, pagesVars, loading, error, server,
                   loadEffects, loads, fetchSeq, loadEffectPending>>

\* handleSellCrypto passes its checks and sends the sell order of a position
\* on display (lines 715-729).
handleSellCrypto ==
    /\ ~loadEffectPending
    /\ Len(trades) < MaxTrades
    /\ ~TradeInFlight
    /\ \E coin \in TradeCoins :
           /\ Holds(coin)
           /\ coin \in server
           /\ trades' = Append(trades, NewTrade("sell", coin))
    /\ UNCHANGED <<holdings, effectPending, chartVars, callVars, pagesVars, loading, error, server,
                   loadEffects, loads, fetchSeq, loadEffectPending>>

\* buyHolding / sellHoldingApi resolves and the handler calls fetchPortfolio.
TradeApplied(t) ==
    /\ t \in 1..Len(trades)
    /\ trades[t].pc = "order"
    /\ server' = IF trades[t].kind = "buy" THEN server \cup {trades[t].coin}
                 ELSE server \ {trades[t].coin}
    /\ fetchSeq' = fetchSeq + 1
    /\ trades' = [trades EXCEPT ![t].pc = "fetchPortfolio", ![t].seq = fetchSeq + 1]
    /\ UNCHANGED <<holdings, effectPending, chartVars, callVars, pagesVars, loading, error, loadEffects,
                   loads, loadEffectPending>>

\* fetchPortfolio of the handler resolves; with no position left the handler
\* stores [] without a further await (lines 671-682, 730-737).
TradePortfolioResponds(t) ==
    /\ t \in 1..Len(trades)
    /\ trades[t].pc = "fetchPortfolio"
    /\ LET payload == ServerPayload(server)
       IN  IF Len(normalizeHoldingsFromApi(payload)) = 0
           THEN /\ trades' = [trades EXCEPT ![t].pc = "done", ![t].payload = payload]
                /\ StoreHoldings(<<>>)
           ELSE /\ trades' = [trades EXCEPT ![t].pc = "fetchMarkets",
                                            ![t].payload = payload]
                /\ UNCHANGED <<holdings, effectPending>>
    /\ UNCHANGED <<chartVars, callVars, pagesVars, loading, error, server, loadEffects, loads, fetchSeq,
                   loadEffectPending>>

\* fetchMarketsByIds of the handler resolves: setHoldings without a guard
\* (lines 682, 755).
TradeMarketsRespond(t) ==
    /\ t \in 1..Len(trades)
    /\ trades[t].pc = "fetchMarkets"
    /\ trades' = [trades EXCEPT ![t].pc = "done"]
    /\ StoreHoldings(EnrichedHoldings(trades[t].payload))
    /\ UNCHANGED <<chartVars, callVars, pagesVars, loading, error, server, loadEffects, loads, fetchSeq,
                   loadEffectPending>>

InitLoad ==
    /\ holdings = <<>>
    /\ loading = TRUE
    /\ error = NoError
    /\ server \in {{}, {1}}
    /\ loadEffects = <<>>
    /\ loads = <<>>
    /\ trades = <<>>
    /\ fetchSeq = 0
    /\ loadEffectPending = TRUE
    /\ chartTimeframe = "7"
    /\ nowTs = 40 * 24 * ONE_HOUR_MS + 10 * ONE_HOUR_MS
    /\ chartData = <<>>
    /\ chartLoading = FALSE
    /\ chartError = NoError
    /\ chartRuns = <<>>
    /\ effectPending = TRUE
    /\ NoCall
    /\ PagesIdle

PortfolioRespondsLoad == \E l \in 1..Len(loads) : PortfolioResponds(l)

PortfolioFailsLoad == \E l \in 1..Len(loads) : PortfolioFails(l)

MarketsRespondLoad == \E l \in 1..Len(loads) : MarketsRespond(l)

TradeAppliedLoad == \E t \in 1..Len(trades) : TradeApplied(t)

TradePortfolioRespondsLoad == \E t \in 1..Len(trades) : TradePortfolioResponds(t)

TradeMarketsRespondLoad == \E t \in 1..Len(trades) : TradeMarketsRespond(t)

NextLoad ==
    \/ LoadEffect
    \/ IntervalTick
    \/ DepsChange
    \/ PortfolioRespondsLoad
    \/ PortfolioFailsLoad
    \/ MarketsRespondLoad
    \/ handleAddCrypto
    \/ handleSellCrypto
    \/ TradeAppliedLoad
    \/ TradePortfolioRespondsLoad
    \/ TradeMarketsRespondLoad

SpecLoad == InitLoad /\ [][NextLoad]_vars

----------------------------------------------------------------------------
(* The helper functions of Portfolio.jsx:85-223 applied on their own: each *)
(* action is one call, with its arguments drawn from the sets below.       *)

MaxMagnitude == 6

MaxTimestamp == 60

MaxSamples == 3

\* null, an absent value, NaN, Infinity, -Infinity
JSSpecials == {JSNull, JSUndefined, JSNaN, JSInfinity, JSNegInfinity}

\* The values a feed may hand to toFiniteNumber: the specials, integers and
\* halves.
JSValues ==
    JSSpecials \cup {Frac(n, 2) : n \in (0 - 2 * MaxMagnitude)..(2 * MaxMagnitude)}

\* The arguments of bucketTimestamp: the specials, whole hours on both sides
\* of the epoch and half hours.
Timestamps ==
    JSSpecials \cup {Num(t) : t \in (0 - MaxTimestamp)..MaxTimestamp}
               \cup {Frac(2 * t + 1, 2) : t \in (0 - MaxMagnitude)..MaxMagnitude}

\* The entries of a raw sparkline array.
SampleValues == {JSNull, JSUndefined, JSNaN, JSInfinity, Num(0), Num(5), Num(7)}

NotAnArray == [isArray |-> FALSE, items |-> <<>>]

Array(items) == [isArray |-> TRUE, items |-> items]

\* market?.sparkline_in_7d?.price: absent, or an array of up to MaxSamples
\* entries.
RawSeries ==
    {NotAnArray} \cup
    {Array(ArrayOf(s)) : s \in UNION {[1..n -> SampleValues] : n \in 0..MaxSamples}}

FallbackValues == {JSNull, JSUndefined, JSNaN, Num(0), Num(0 - 1), Num(100)}

\* One row of the coins/markets response as the backend proxy relays it.
ApiQuote(id, price, sparkline) ==
    [id |-> id, current_price |-> price,
     price_change_percentage_24h_in_currency |-> JSUndefined,
     price_change_percentage_24h |-> Num(2),
     price_change_percentage_7d_in_currency |-> JSUndefined,
     price_change_percentage_7d |-> JSUndefined,
     sparkline_in_7d |-> sparkline]

\* r.sparkline_in_7d: absent, or { price: [...] }
NoSparkline == [present |-> FALSE, price |-> NotAnArray]

SparklineIn7d(prices) == [present |-> TRUE, price |-> Array(prices)]

\* services/coingecko.js fetchMarketsByIds with sparkline: true, one row of
\* data.map
marketRow(r) ==
    [id            |-> r.id,
     current_price |-> Coalesce(r.current_price, JSNull),
     ch24h         |-> Coalesce(r.price_change_percentage_24h_in_currency,
                                Coalesce(r.price_change_percentage_24h, JSNull)),
     ch7d          |-> Coalesce(r.price_change_percentage_7d_in_currency,
                                Coalesce(r.price_change_percentage_7d, JSNull)),
     sparkline     |-> IF r.sparkline_in_7d.present THEN r.sparkline_in_7d.price
                       ELSE Array(<<>>)]

fetchMarketsByIds(data) == ArrayOf([i \in 1..Len(data) |-> marketRow(data[i])])

\* The quote prices of a row: absent, null, zero, negative, positive.
QuotePrices == {JSUndefined, JSNull, Num(0), Num(0 - 3), Num(12)}

QuoteSparklines ==
    {NoSparkline, SparklineIn7d(<<>>), SparklineIn7d(<<JSNull>>),
     SparklineIn7d(<<Num(11), Num(13), Num(12)>>)}

\* The responses of coins/markets for the position "x": no row for it, or
\* one row.
QuoteResponses ==
    {<<>>} \cup {<<ApiQuote("x", price, sparkline)>> :
                    price \in QuotePrices, sparkline \in QuoteSparklines}

\* The saved positions handed to mergeHoldingsWithMarket.
SavedHoldings ==
    {normalizeHoldingFromApi(ApiHolding("x", quantity, avgPrice)) :
        quantity \in {0, 2}, avgPrice \in {0, 10}}

\* Each behaviour is one call: a helper is applied once, to any arguments.
CallToFiniteNumber ==
    /\ called = "none"
    /\ \E value \in JSValues :
          /\ called' = "toFiniteNumber"
          /\ calledWith' = <<value>>
          /\ returned' = toFiniteNumber(value)
    /\ UNCHANGED <<holdings, effectPending, chartVars, loadVars, pagesVars>>

CallBucketTimestamp ==
    /\ called = "none"
    /\ \E timestamp \in Timestamps :
          /\ called' = "bucketTimestamp"
          /\ calledWith' = <<timestamp>>
          /\ returned' = bucketTimestamp(timestamp)
    /\ UNCHANGED <<holdings, effectPending, chartVars, loadVars, pagesVars>>

CallBuildSparklineSeries ==
    /\ called = "none"
    /\ \E series \in RawSeries : \E fallbackValue \in FallbackValues :
          /\ called' = "buildSparklineSeries"
          /\ calledWith' = <<series, fallbackValue>>
          /\ returned' = buildSparklineSeries(series, fallbackValue)
    /\ UNCHANGED <<holdings, effectPending, chartVars, loadVars, pagesVars>>

CallMergeHoldingsWithMarket ==
    /\ called = "none"
    /\ \E holding \in SavedHoldings : \E data \in QuoteResponses :
          /\ called' = "mergeHoldingsWithMarket"
          /\ calledWith' = <<holding, data>>
          /\ returned' = mergeHoldingsWithMarket(<<holding>>, fetchMarketsByIds(data), 1)
    /\ UNCHANGED <<holdings, effectPending, chartVars, loadVars, pagesVars>>

\* Rational arithmetic on finite numbers n/d.
RatAdd(a, b) == Frac(a.n * b.d + b.n * a.d, a.d * b.d)

RatMul(a, b) == Frac(a.n * b.n, a.d * b.d)

\* a / b for b > 0
RatDiv(a, b) == Frac(a.n * b.d, a.d * b.n)

RECURSIVE RatSum(_)
RatSum(s) == IF s = <<>> THEN Num(0) ELSE RatAdd(Head(s), RatSum(Tail(s)))

\* The positions are valued at their average price instead of the quote.
portfolioValue_atCost(hs) ==
    SumSeq([i \in 1..Len(hs) |-> hs[i].quantity * hs[i].avgBuyPrice])

\* The summary figures of the page (Portfolio.jsx:772-800), from the merged
\* holdings and the realised profit.
portfolioValue(hs) ==
    SumSeq([i \in 1..Len(hs) |-> hs[i].quantity * hs[i].currentPrice])

totalInvested(hs) ==
    SumSeq([i \in 1..Len(hs) |-> hs[i].quantity * hs[i].avgBuyPrice])

totalProfitLoss(hs) == portfolioValue(hs) - totalInvested(hs)

profitLossPercent(hs) ==
    IF totalInvested(hs) > 0
    THEN RatMul(RatDiv(Num(totalProfitLoss(hs)), Num(totalInvested(hs))), Num(100))
    ELSE Num(0)

\* holding.ch24h || 0: null, NaN and 0 are falsy
change24h(holding) ==
    IF NumberIsFinite(holding.ch24h) /\ holding.ch24h.n # 0 THEN holding.ch24h
    ELSE Num(0)

portfolio24hChange(hs) ==
    RatSum([i \in 1..Len(hs) |->
               RatDiv(RatMul(Num(hs[i].quantity * hs[i].currentPrice), change24h(hs[i])),
                      Num(100))])

portfolio24hChangePercent(hs) ==
    IF portfolioValue(hs) > 0
    THEN RatMul(RatDiv(portfolio24hChange(hs), Num(portfolioValue(hs))), Num(100))
    ELSE Num(0)

\* useMemo of lines 394-400: realisedProfitBase in the display currency
realisedProfit(realisedProfitBase, usdConversion) ==
    LET base == JSNumber(realisedProfitBase)
    IN  IF ~NumberIsFinite(base) THEN Num(0)
        ELSE IF usdConversion <= 0 THEN base
        ELSE RatMul(base, Num(usdConversion))

lifetimeProfit(hs, realised) == RatAdd(realised, Num(totalProfitLoss(hs)))

SummaryMetrics(hs, realised) ==
    [portfolioValue            |-> portfolioValue(hs),
     totalInvested             |-> totalInvested(hs),
     totalProfitLoss           |-> totalProfitLoss(hs),
     profitLossPercent         |-> profitLossPercent(hs),
     lifetimeProfit            |-> lifetimeProfit(hs, realised),
     portfolio24hChange        |-> portfolio24hChange(hs),
     portfolio24hChangePercent |-> portfolio24hChangePercent(hs)]

\* The 24h changes a quote may carry: none, zero, a gain, a fractional loss.
Changes24h == {JSNull, Num(0), Num(2), Frac(0 - 3, 2)}

\* The merged holdings the figures are computed from: the lists of the
\* loader with any 24h change on each position, and the position "x" under
\* every quote shape.
SummaryHoldingLists ==
    UNION {{ArrayOf([i \in 1..Len(hs) |-> [hs[i] EXCEPT !.ch24h = changes[i]]]) :
               changes \in [1..Len(hs) -> Changes24h]} : hs \in HoldingLists}
    \cup {mergeHoldingsWithMarket(<<holding>>, fetchMarketsByIds(data), 1) :
             holding \in SavedHoldings, data \in QuoteResponses}

\* realisedProfitBase: a loss, nothing, a gain
RealisedProfitBases == {Num(0 - 5), Num(0), Num(7)}

\* One render of the summary cards.
RenderSummary ==
    /\ called = "none"
    /\ \E hs \in SummaryHoldingLists : \E base \in RealisedProfitBases :
          /\ called' = "summary"
          /\ calledWith' = <<hs, realisedProfit(base, 1)>>
          /\ returned' = SummaryMetrics(hs, realisedProfit(base, 1))
    /\ UNCHANGED <<holdings, effectPending, chartVars, loadVars, pagesVars>>

InitHelpers ==
    /\ holdings = <<>>
    /\ chartTimeframe = "7"
    /\ nowTs = 40 * 24 * ONE_HOUR_MS
    /\ chartData = <<>>
    /\ chartLoading = FALSE
    /\ chartError = NoError
    /\ chartRuns = <<>>
    /\ effectPending = FALSE
    /\ LoaderIdle
    /\ NoCall
    /\ PagesIdle

NextHelpers ==
    \/ CallToFiniteNumber
    \/ CallBucketTimestamp
    \/ CallBuildSparklineSeries
    \/ CallMergeHoldingsWithMarket
    \/ RenderSummary

SpecHelpers == InitHelpers /\ [][NextHelpers]_vars

----------------------------------------------------------------------------
(* SpecFeed: one run of the reconstruction on degraded provider data:      *)
(* positions without a quote or with a null quote price, histories with    *)
(* malformed samples.                                                      *)

\* The coins/markets rows for the position "x": no row, a row with a null
\* price and no sparkline, a row with a price and a sparkline.
FeedQuotes ==
    { <<>>,
      <<ApiQuote("x", JSNull, NoSparkline)>>,
      <<ApiQuote("x", JSNull, SparklineIn7d(<<>>))>>,
      <<ApiQuote("x", Num(12), SparklineIn7d(<<Num(11), Num(13), Num(12)>>))>> }

\* What loadPortfolio hands to setHoldings: the position "x" alone, or after
\* the position "a" of the catalogue.
FeedHoldings(before, holding, data) ==
    mergeHoldingsWithMarket(normalizeHoldingsFromApi(before) \o <<holding>>,
                            MarketData \o fetchMarketsByIds(data), 1)

FeedHoldingLists ==
    {FeedHoldings(before, holding, data) :
        before \in {<<>>, <<ApiCatalogue[1]>>},
        holding \in SavedHoldings, data \in FeedQuotes}

FeedNow == 40 * 24 * ONE_HOUR_MS + 10 * ONE_HOUR_MS

\* The price arrays of market_chart, relative to now: empty, one good
\* sample, samples whose price or timestamp is null, NaN or Infinity, a
\* sample that is not a pair, a good sample followed by one with a null
\* price.
FeedHistoryCases(now) ==
    { <<>>,
      << Point(now - 2 * DayMs, 8) >>,
      << <<Num(now - 2 * DayMs), JSNull>> >>,
      << <<Num(now - 2 * DayMs), JSNaN>> >>,
      << <<Num(now - 2 * DayMs), JSInfinity>> >>,
      << <<JSNull, Num(8)>> >>,
      << <<JSInfinity, Num(8)>> >>,
      << <<Num(now - 2 * DayMs)>> >>,
      << Point(now - 2 * DayMs, 8), <<Num(now - 1 * DayMs), JSNull>> >> }

FeedResponses(now) ==
    {Failure} \cup {Success(prices) : prices \in FeedHistoryCases(now)}

InitFeed ==
    /\ holdings \in FeedHoldingLists
    /\ chartTimeframe = "7"
    /\ nowTs = FeedNow
    /\ chartData = <<>>
    /\ chartLoading = FALSE
    /\ chartError = NoError
    /\ chartRuns = <<>>
    /\ effectPending = TRUE
    /\ LoaderIdle
    /\ NoCall
    /\ PagesIdle

RespondFeed ==
    \E r \in 1..Len(chartRuns) : \E i \in 1..Len(chartRuns[r].responses) :
        \E resp \in FeedResponses(nowTs) : Respond(r, i, resp)

NextFeed == ChartEffect \/ RespondFeed \/ FinishChart

SpecFeed == InitFeed /\ [][NextFeed]_vars

----------------------------------------------------------------------------
(* SpecRepeat: the chart effect run again on unchanged inputs.  holdings   *)
(* is a dependency of the effect by identity, so every setHoldings of the  *)
(* 2-minute refresh starts a run, also when the list has the same content. *)

\* setHoldings(enrichedHoldings) with the content the state already has
HoldingsRefresh ==
    /\ MayRerun
    /\ ~effectPending
    /\ Len(chartRuns) > 0
    /\ holdings' = holdings
    /\ effectPending' = TRUE
    /\ UNCHANGED <<chartTimeframe, chartData, chartLoading, chartError, chartRuns,
                   nowTs, loadVars, callVars, pagesVars>>

InitRepeat ==
    /\ holdings \in RunsHoldingLists
    /\ chartTimeframe \in Timeframes
    /\ nowTs = 40 * 24 * ONE_HOUR_MS + 10 * ONE_HOUR_MS
    /\ chartData = <<>>
    /\ chartLoading = FALSE
    /\ chartError = NoError
    /\ chartRuns = <<>>
    /\ effectPending = TRUE
    /\ LoaderIdle
    /\ NoCall
    /\ PagesIdle

\* The outcomes of one market_chart request in SpecRepeat: a failure, one
\* sample, two samples out of order, two samples of one day in either order.
RepeatResponses(now) ==
    { Failure,
      Success(<< Point(now - 2 * DayMs, 8) >>),
      Success(<< Point(now - 1 * DayMs, 11), Point(now - 3 * DayMs, 7) >>),
      Success(<< Point(now - 2 * DayMs, 8), Point(now - 2 * DayMs + ONE_HOUR_MS, 5) >>),
      Success(<< Point(now - 2 * DayMs + ONE_HOUR_MS, 5), Point(now - 2 * DayMs, 8) >>) }

RespondRepeat ==
    \E r \in 1..Len(chartRuns) : \E i \in 1..Len(chartRuns[r].responses) :
        \E resp \in RepeatResponses(nowTs) : Respond(r, i, resp)

NextRepeat == ChartEffect \/ RespondRepeat \/ FinishChart \/ HoldingsRefresh

SpecRepeat == InitRepeat /\ [][NextRepeat]_vars

----------------------------------------------------------------------------
(* SpecSearch, SpecCurrency, SpecDashboard: the search of the modal, the   *)
(* currency hook with the profile page, and the dashboard pager, each on a *)
(* page whose other parts are at rest.                                     *)

\* The portfolio page's holdings, chart and loader at rest.
PortfolioIdle ==
    /\ holdings = <<>>
    /\ effectPending = FALSE
    /\ chartTimeframe = "7"
    /\ nowTs = 40 * 24 * ONE_HOUR_MS
    /\ chartData = <<>>
    /\ chartLoading = FALSE
    /\ chartError = NoError
    /\ chartRuns = <<>>
    /\ LoaderIdle
    /\ NoCall

\* After the first render: the search effect has set its first timer.
InitSearch ==
    /\ showAddModal = FALSE
    /\ searchQuery = <<>>
    /\ searchResults = <<>>
    /\ showSearchResults = FALSE
    /\ searchLoading = FALSE
    /\ searches = << [query |-> <<>>, cancel |-> FALSE, phase |-> "timer"] >>
    /\ addForm = EmptyForm
    /\ priceFetches = <<>>
    /\ PortfolioIdle
    /\ CurrencyIdle
    /\ DashboardIdle

NextSearch ==
    \/ OpenModal
    \/ EditQuery
    \/ DebounceFires
    \/ SearchResponds
    \/ handleSelectCoin
    \/ PriceResponds
    \/ handleCloseModal

SpecSearch == InitSearch /\ [][NextSearch]_vars

\* After the first render of a page that uses the hook, with the profile
\* page open: loadCurrency and fetchProfile have sent their requests.
InitCurrency ==
    /\ currency = DEFAULT_CURRENCY
    /\ profile \in StoredCurrencies
    /\ currencyLoads = << [cancelled |-> FALSE, phase |-> "sent", ok |-> FALSE,
                           payload |-> NoCurrency, events |-> 0] >>
    /\ profilePage = [settings |-> NoCurrency, originalSettings |-> NoCurrency,
                      fetching |-> TRUE]
    /\ saves = <<>>
    /\ lastEvent = NoEvent
    /\ eventCount = 0
    /\ PortfolioIdle
    /\ SearchIdle
    /\ DashboardIdle

NextCurrency ==
    \/ AuthFetchChanges
    \/ ServeProfile
    \/ CompleteLoadCurrency
    \/ fetchProfile
    \/ handleChange
    \/ handleSubmit
    \/ ServeSave
    \/ FinishSave

SpecCurrency == InitCurrency /\ [][NextCurrency]_vars

\* After the first render of the dashboard: the effect has called
\* loadTopCoins once.
InitDashboard ==
    /\ page = 1
    /\ allCoins = <<>>
    /\ loadingCoins = TRUE
    /\ coinsError = NoCoinsError
    /\ coinEffect = 1
    /\ coinLoads = << [effect |-> 1, phase |-> "waiting"] >>
    /\ PortfolioIdle
    /\ SearchIdle
    /\ CurrencyIdle

NextDashboard ==
    \/ CoinsEffect
    \/ CoinsIntervalTick
    \/ CoinsRespond
    \/ PrevPage
    \/ NextPage

SpecDashboard == InitDashboard /\ [][NextDashboard]_vars

----------------------------------------------------------------------------
(* Properties of the reconstruction, checked under SpecChart.              *)

\* a < b and a <= b for finite numbers n/d
NumLess(a, b) == a.n * b.d < b.n * a.d

NumLeq(a, b) == a.n * b.d <= b.n * a.d

\* The run of SpecChart, once fetchChartData has returned.
RunDone == Len(chartRuns) = 1 /\ chartRuns[1].pc = "done"

RunHoldings == chartRuns[1].holdings

RunDays == chartRuns[1].chartDays

RunPromises == Promises(chartRuns[1])

RunChartData == AllChartData(RunHoldings, RunPromises, nowTs, RunDays)

\* The pre-rebaseline accumulator of the run.
RunProfitMap == PortfolioProfitMap(RunHoldings, RunChartData, nowTs, RunDays)

\* The series the portfolio fallback path yields for the inputs of the state.
FallbackSeries ==
    Rebaseline(FallbackChartArray(holdings, ChartDays(chartTimeframe), nowTs))

\* Per holding of the run: the indices of its usable samples, and its
\* bucket -> price map.
RunUsableSets ==
    LET data == RunChartData
    IN  ArrayOf([i \in 1..Len(data) |->
                    {k \in 1..Len(data[i]) :
                        UsablePoint(data[i][k], WindowStart(nowTs, RunDays))}])

RunPriceMaps ==
    LET data == RunChartData
    IN  ArrayOf([i \in 1..Len(data) |->
                    PriceByTimestamp(data[i], WindowStart(nowTs, RunDays))])

RunUsable(i) == RunUsableSets[i]

RunPrices(i) == RunPriceMaps[i]

LiveProfit(h) == h.quantity * (h.currentPrice - h.avgBuyPrice)

\* C1: whenever the series is not empty, its last point's value is 0 after
\* the re-baseline step: on the series a run sets (bucketed path and
\* empty-holdings path) and on the series of the portfolio fallback path.
C1_RightmostPointZero ==
    /\ chartData # <<>> => chartData[Len(chartData)].value = 0
    /\ LET series == FallbackSeries
       IN  series # <<>> => series[Len(series)].value = 0

\* A bucketed series of several points whose first value is not 0.
C1_Witness ==
    /\ RunDone
    /\ Len(RunHoldings) > 0
    /\ Len(chartData) >= 2
    /\ chartData[1].value # 0

\* Every run of the effect has run to its end and no re-run is due.
RunsQuiescent ==
    /\ ~effectPending
    /\ Len(chartRuns) > 0
    /\ \A r \in 1..Len(chartRuns) : chartRuns[r].pc = "done"

\* C2: a run that was superseded before it completed changes none of
\* chartData, chartError and chartLoading when it completes, and once every
\* run has finished the chart state is the one the most recently started
\* run produced.
C2_LastResultWins ==
    /\ [][\A r \in 1..Len(chartRuns) :
              (/\ chartRuns[r].pc = "fetching"
               /\ chartRuns[r].cancel
               /\ chartRuns'[r].pc = "done")
              => UNCHANGED <<chartData, chartError, chartLoading>>]_vars
    /\ [](RunsQuiescent =>
             /\ chartData = chartRuns[Len(chartRuns)].result
             /\ chartError = chartRuns[Len(chartRuns)].error
             /\ ~chartLoading)

\* A superseded run finished after a later run had finished, with a series
\* other than the one on display.
C2_Witness ==
    /\ RunsQuiescent
    /\ \E r \in 1..(Len(chartRuns) - 1) :
           /\ chartRuns[r].overtaken
           /\ chartRuns[r].cancel
           /\ chartRuns[r].result # <<>>
           /\ chartRuns[r].result # chartData

\* No load and no trade is in flight and no re-run of the load effect is due.
LoadQuiescent ==
    /\ ~loadEffectPending
    /\ \A l \in 1..Len(loads) : loads[l].pc \in {"done", "failed"}
    /\ \A t \in 1..Len(trades) : trades[t].pc = "done"

\* The position fetch that started last was rejected.
LastFetchFailed ==
    \E l \in 1..Len(loads) : loads[l].seq = fetchSeq /\ loads[l].pc = "failed"

\* The payload the position fetch that started last received.
LastFetchPayload ==
    IF \E l \in 1..Len(loads) : loads[l].seq = fetchSeq
    THEN loads[CHOOSE l \in 1..Len(loads) : loads[l].seq = fetchSeq].payload
    ELSE trades[CHOOSE t \in 1..Len(trades) : trades[t].seq = fetchSeq].payload

\* C3: once nothing is in flight, the holdings on display are those of the
\* position fetch that started last (unless that fetch was rejected): no
\* load that started earlier has overwritten them.
C3_LatestFetchWins ==
    (LoadQuiescent /\ fetchSeq > 0 /\ ~LastFetchFailed)
        => holdings = EnrichedHoldings(LastFetchPayload)

\* C4: every holding of positive quantity has its live profit
\* quantity * (currentPrice - avgBuyPrice) in the accumulator at nowBucket,
\* next to what the holdings' samples of that bucket contribute.
C4_LiveProfitAtNowBucket ==
    RunDone /\ Len(RunHoldings) > 0 =>
        LET nowBucket == NowBucket(nowTs)
            expected(i) ==
                IF RunHoldings[i].quantity <= 0 THEN 0
                ELSE LiveProfit(RunHoldings[i])
                     + (IF nowBucket \in DOMAIN RunPrices(i)
                        THEN RunHoldings[i].quantity
                             * (RunPrices(i)[nowBucket] - RunHoldings[i].avgBuyPrice)
                        ELSE 0)
        IN  /\ nowBucket \in DOMAIN RunProfitMap
            /\ RunProfitMap[nowBucket]
                 = SumSeq([i \in 1..Len(RunHoldings) |-> expected(i)])

\* Holdings i and j of positive quantity have one usable sample each, both in
\* bucket b, and no other holding has a usable sample.
TwoSamplesInBucket(hs, usable, prices, i, j, b) ==
    /\ i < j
    /\ hs[i].quantity > 0 /\ hs[j].quantity > 0
    /\ Cardinality(usable[i]) = 1 /\ Cardinality(usable[j]) = 1
    /\ DOMAIN prices[i] = {b} /\ DOMAIN prices[j] = {b}
    /\ \A k \in 1..Len(hs) :
           k \notin {i, j} => (hs[k].quantity <= 0 \/ usable[k] = {})

SampleProfit(hs, prices, i, b) ==
    hs[i].quantity * (prices[i][b] - hs[i].avgBuyPrice)

RECURSIVE OpenIndices(_, _)
\* The indices of the holdings of positive quantity, in order.
OpenIndices(hs, from) ==
    IF from > Len(hs) THEN <<>>
    ELSE IF hs[from].quantity > 0 THEN <<from>> \o OpenIndices(hs, from + 1)
    ELSE OpenIndices(hs, from + 1)

\* The series fetchChartData sets for these inputs.
ReconstructedSeries(hs, promises, now, chartDays) ==
    IF Len(hs) = 0 THEN EmptyHoldingsChart(now)
    ELSE ChartArray(hs, promises, now, chartDays)

TimesAndValues(series) ==
    [i \in 1..Len(series) |-> <<series[i].timestamp, series[i].value>>]

\* C6: removing the holdings of quantity <= 0, with their histories, leaves
\* the series unchanged in timestamps and values.
C6_QuantityGating ==
    RunDone =>
        LET open == OpenIndices(RunHoldings, 1)
            hs   == [k \in 1..Len(open) |-> RunHoldings[open[k]]]
            ps   == [k \in 1..Len(open) |-> RunPromises[open[k]]]
        IN  TimesAndValues(chartData)
              = TimesAndValues(ReconstructedSeries(hs, ps, nowTs, RunDays))

\* C7: no point of the series is earlier than now - windowDays * 24h, on the
\* series a run sets and on the series of the portfolio fallback path.
C7_WindowClipping ==
    LET earliest == Num(nowTs - ChartDays(chartTimeframe) * 24 * ONE_HOUR_MS)
        series   == FallbackSeries
    IN  /\ \A i \in 1..Len(chartData) : NumLeq(earliest, chartData[i].timestamp)
        /\ \A i \in 1..Len(series) : NumLeq(earliest, series[i].timestamp)

\* The provider sent a sample older than the window for an open holding.
C7_Witness ==
    /\ RunDone
    /\ Len(chartData) >= 2
    /\ \E i \in 1..Len(RunHoldings) :
           /\ RunHoldings[i].quantity > 0
           /\ \E k \in 1..Len(RunChartData[i]) :
                  NumLess(RunChartData[i][k][1],
                          Num(nowTs - RunDays * 24 * ONE_HOUR_MS))

\* C8: no point of the series is later than now.
C8_NotAfterNow ==
    \A i \in 1..Len(chartData) : NumLeq(chartData[i].timestamp, Num(nowTs))

\* C9: the series is strictly ascending by timestamp, on the series a run
\* sets and on the series of the portfolio fallback path.
C9_StrictlyAscending ==
    /\ \A i \in 1..(Len(chartData) - 1) :
           NumLess(chartData[i].timestamp, chartData[i + 1].timestamp)
    /\ LET series == FallbackSeries
       IN  \A i \in 1..(Len(series) - 1) :
               NumLess(series[i].timestamp, series[i + 1].timestamp)

\* Two open holdings, one answered out of order, several points in the series.
C9_Witness ==
    /\ RunDone
    /\ Len(chartData) >= 3
    /\ \E i, j \in 1..Len(RunHoldings) :
           /\ i # j
           /\ RunHoldings[j].quantity > 0
           /\ RunHoldings[i].quantity > 0
           /\ Len(RunChartData[i]) = 2
           /\ NumLess(RunChartData[i][2][1], RunChartData[i][1][1])
           /\ DOMAIN RunPrices(i) \cap DOMAIN RunPrices(j) # {}

\* C10: a failed history fetch gives the series the run would have set had
\* that fetch returned an empty list, and the run ends with chartData set and
\* no chart error.
C10_FetchFailureIsEmptySeries ==
    RunDone /\ Len(RunHoldings) > 0 =>
        \A i \in 1..Len(RunHoldings) :
            ~chartRuns[1].responses[i].ok =>
                /\ chartData =
                     ChartArray(RunHoldings,
                                Promises([chartRuns[1] EXCEPT
                                             !.responses[i] = Success(<<>>)]),
                                nowTs, RunDays)
                /\ chartData # <<>>
                /\ chartError = NoError
                /\ ~chartLoading

\* One fetch failed for an open holding while another holding got samples.
C10_Witness ==
    /\ RunDone
    /\ chartData # <<>>
    /\ \E i, j \in 1..Len(RunHoldings) :
           /\ i # j
           /\ ~chartRuns[1].responses[i].ok
           /\ RunHoldings[i].quantity > 0
           /\ chartRuns[1].responses[j].ok
           /\ RunUsable(j) # {}
           /\ RunHoldings[j].quantity > 0

----------------------------------------------------------------------------
(* Degraded inputs: fallback series, missing price signals, malformed      *)
(* samples, and the helper functions on their own.                         *)

\* The accumulator of the run after holdings.forEach, before the nowBucket
\* fix-up of lines 926-939.
RunAccumulatedMap == AccumulatedProfitMap(RunHoldings, RunChartData, nowTs, RunDays)

\* C11: when the holdings are not empty and the per-holding accumulation
\* leaves the accumulator with zero entries, the series handed to the chart
\* is the portfolio fallback series (sum of quantity * sparkline[nearest
\* scaled index] minus the total invested, before the re-baseline).
C11_FallbackWhenNoBucket ==
    (RunDone /\ Len(RunHoldings) > 0 /\ DOMAIN RunAccumulatedMap = {})
        => chartData = FallbackSeries

\* The quotes that carry no price signal: no row, or a row with a null price
\* and no sparkline samples.
NoSignalQuotes ==
    { <<>>,
      <<ApiQuote("x", JSNull, NoSparkline)>>,
      <<ApiQuote("x", JSNull, SparklineIn7d(<<>>))>> }

\* The merged form of a position whose quote carries no price signal.
NoSignalHoldings(before) ==
    {FeedHoldings(before, holding, data) :
        holding \in SavedHoldings, data \in NoSignalQuotes}

\* The history request of holding i of the run brought no sample.
NoHistory(i) == RunPromises[i].value = <<>>

\* C12: when the holdings are not empty and no holding has any usable price
\* information (no history, no quote price, no sparkline, no average price),
\* the run ends in the no-data outcome: an empty series and a no-data
\* message, not a zero-valued point.
C12_NoDataOutcome ==
    (/\ RunDone
     /\ Len(RunHoldings) = 1
     /\ RunHoldings \in NoSignalHoldings(<<>>)
     /\ RunHoldings[1].quantity > 0
     /\ RunHoldings[1].avgBuyPrice = 0
     /\ NoHistory(1))
        => (chartData = <<>> /\ chartError # NoError)

\* A finite number, as opposed to null, an absent value, NaN and +/-Infinity.
IsFiniteNumber(value) == value.t = "number"

\* The finite numbers among the entries of a raw sparkline, in their order.
FiniteEntries(series) ==
    IF series.isArray
    THEN LET kept == SelectSeq(series.items, IsFiniteNumber)
         IN  ArrayOf([i \in 1..Len(kept) |-> kept[i].n])
    ELSE <<>>

Copies(count, value) == ArrayOf([i \in 1..count |-> value])

\* The quote price of the row of a coins/markets response, absent without a row.
QuotePrice(data) == IF data = <<>> THEN JSUndefined ELSE data[1].current_price

\* The raw sparkline of the row of a coins/markets response.
QuoteSparkline(data) ==
    IF data = <<>> THEN NotAnArray ELSE data[1].sparkline_in_7d.price

IsPositive(value) == IsFiniteNumber(value) /\ value.n > 0

\* C13: buildSparklineSeries returns [] whenever the raw samples hold no
\* finite number and the fallback value is null, undefined or NaN; and
\* mergeHoldingsWithMarket gives an empty sparkline to a holding with no
\* sparkline sample, no positive quote price and no positive average price.
C13_EmptyWithoutSignal ==
    /\ called = "buildSparklineSeries" =>
          LET series        == calledWith[1]
              fallbackValue == calledWith[2]
          IN  (/\ FiniteEntries(series) = <<>>
               /\ fallbackValue \in {JSNull, JSUndefined, JSNaN})
                  => returned = <<>>
    /\ called = "mergeHoldingsWithMarket" =>
          LET holding == calledWith[1]
              data    == calledWith[2]
          IN  (/\ FiniteEntries(QuoteSparkline(data)) = <<>>
               /\ ~IsPositive(QuotePrice(data))
               /\ ~IsPositive(holding.avgBuyPrice))
                  => returned[1].sparkline = <<>>

\* C14: when the raw samples hold at least 2 finite numbers,
\* buildSparklineSeries returns exactly those finite samples in their order:
\* every null or non-finite entry is removed, nothing is added or altered.
C14_FiniteSamplesUnchanged ==
    called = "buildSparklineSeries" =>
        LET finite == FiniteEntries(calledWith[1])
        IN  Len(finite) >= 2 => returned = finite

\* C15: with at least one finite raw sample or a finite fallback value,
\* buildSparklineSeries returns at least 2 points: 48 copies of the sample
\* when there is exactly one finite sample, 48 copies of the fallback value
\* when there is none.
C15_AtLeastTwoPoints ==
    called = "buildSparklineSeries" =>
        LET finite        == FiniteEntries(calledWith[1])
            fallbackValue == calledWith[2]
        IN  /\ (Len(finite) >= 1 \/ IsFiniteNumber(fallbackValue))
                  => Len(returned) >= 2
            /\ Len(finite) = 1
                  => returned = Copies(FALLBACK_SPARKLINE_POINTS, finite[1])
            /\ (Len(finite) = 0 /\ IsFiniteNumber(fallbackValue))
                  => returned = Copies(FALLBACK_SPARKLINE_POINTS, fallbackValue.n)

\* C16: mergeHoldingsWithMarket resolves currentPrice to the quote price if
\* it is finite and > 0, else to the average price if that is > 0, else to
\* 0, whether the quote is absent or its price is null, zero or negative.
C16_CurrentPriceResolution ==
    called = "mergeHoldingsWithMarket" =>
        LET holding == calledWith[1]
            price   == QuotePrice(calledWith[2])
        IN  returned[1].currentPrice =
                IF IsPositive(price) THEN price.n
                ELSE IF IsPositive(holding.avgBuyPrice) THEN holding.avgBuyPrice.n
                ELSE 0

\* C17: toFiniteNumber returns its input when the input is a finite number
\* and null for every other input: null, an absent value, NaN, +/-Infinity.
C17_NumberIffFinite ==
    called = "toFiniteNumber" =>
        LET value == calledWith[1]
        IN  IF IsFiniteNumber(value) THEN returned = value ELSE returned = JSNull

\* C18: for a finite timestamp t the bucket is a multiple of 24h with
\* bucket <= t < bucket + 24h and bucketing the bucket gives it back; for
\* null, an absent value and NaN the result is null.
C18_DayBucket ==
    called = "bucketTimestamp" =>
        LET timestamp == calledWith[1]
        IN  IF IsFiniteNumber(timestamp)
            THEN /\ IsFiniteNumber(returned)
                 /\ returned.d = 1
                 /\ returned.n % (24 * ONE_HOUR_MS) = 0
                 /\ NumLeq(returned, timestamp)
                 /\ NumLess(timestamp, Num(returned.n + 24 * ONE_HOUR_MS))
                 /\ bucketTimestamp(returned) = returned
            ELSE timestamp \in {JSNull, JSUndefined, JSNaN} => returned = JSNull

\* A [timestamp, price] pair of finite numbers.
WellFormed(point) ==
    /\ Len(point) >= 2
    /\ IsFiniteNumber(point[1])
    /\ IsFiniteNumber(point[2])

\* C19: a sample whose timestamp or price is not a finite number, or that is
\* not a pair, contributes to no bucket: the accumulator after
\* holdings.forEach is the one the well-formed samples alone give.
C19_MalformedSampleIgnored ==
    RunDone =>
        LET data       == RunChartData
            wellFormed == ArrayOf([i \in 1..Len(data) |->
                                      SelectSeq(data[i], WellFormed)])
        IN  RunAccumulatedMap =
                AccumulatedProfitMap(RunHoldings, wellFormed, nowTs, RunDays)

\* map.get(key) ?? 0
MapGet(map, key) == IF key \in DOMAIN map THEN map[key] ELSE 0

\* C20: a holding with no history, no sparkline sample and a quote that is
\* absent or has a null price contributes zero to every bucket, nowBucket
\* included: the accumulator after holdings.forEach is, bucket by bucket,
\* the one the other holdings give without it.
C20_NoSignalContributesZero ==
    (/\ RunDone
     /\ RunHoldings \in NoSignalHoldings(<<>>) \cup NoSignalHoldings(<<ApiCatalogue[1]>>)
     /\ NoHistory(Len(RunHoldings)))
        => LET hs      == RunHoldings
               data    == RunChartData
               with    == RunAccumulatedMap
               without == AccumulatedProfitMap(SubSeq(hs, 1, Len(hs) - 1),
                                               SubSeq(data, 1, Len(hs) - 1),
                                               nowTs, RunDays)
           IN  \A bucket \in DOMAIN with \cup {NowBucket(nowTs)} :
                   MapGet(with, bucket) = MapGet(without, bucket)

----------------------------------------------------------------------------
(* Summary figures, determinism, sample selection and sparkline spacing.   *)

RECURSIVE SumOver(_, _)
\* The sum of f over the index set S.
SumOver(f, S) ==
    IF S = {} THEN 0
    ELSE LET i == CHOOSE i \in S : TRUE
         IN  f[i] + SumOver(f, S \ {i})

RECURSIVE ProductOver(_, _)
ProductOver(f, S) ==
    IF S = {} THEN 1
    ELSE LET i == CHOOSE i \in S : TRUE
         IN  f[i] * ProductOver(f, S \ {i})

\* ch24h of a holding as a fraction n/d, null counted as 0/1.
ChangeOf(holding) ==
    IF holding.ch24h.t = "number" THEN holding.ch24h ELSE Num(0)

\* C21: the summary figures are exact reductions over the merged holdings:
\* value = sum of quantity * currentPrice, invested = sum of quantity *
\* avgBuyPrice, P/L = value - invested, 24h change = sum of quantity *
\* currentPrice * ch24h / 100 with a null ch24h counted as 0, lifetime
\* profit = realised profit + P/L; each percentage is 0 when its
\* denominator is not positive.
C21_SummaryMetrics ==
    called = "summary" =>
        LET hs       == calledWith[1]
            realised == calledWith[2]
            m        == returned
            idx      == 1..Len(hs)
            value    == SumOver([i \in idx |-> hs[i].quantity * hs[i].currentPrice], idx)
            invested == SumOver([i \in idx |-> hs[i].quantity * hs[i].avgBuyPrice], idx)
            \* the 24h change over the common denominator 100 * D
            D        == ProductOver([i \in idx |-> ChangeOf(hs[i]).d], idx)
            changeN  == SumOver([i \in idx |->
                            hs[i].quantity * hs[i].currentPrice * ChangeOf(hs[i]).n
                                * (D \div ChangeOf(hs[i]).d)], idx)
        IN  /\ m.portfolioValue = value
            /\ m.totalInvested = invested
            /\ m.totalProfitLoss = value - invested
            /\ m.lifetimeProfit.n * realised.d
                   = m.lifetimeProfit.d * (realised.n + (value - invested) * realised.d)
            /\ m.portfolio24hChange.n * 100 * D = m.portfolio24hChange.d * changeN
            /\ IF invested > 0
               THEN m.profitLossPercent.n * invested
                        = m.profitLossPercent.d * (value - invested) * 100
               ELSE m.profitLossPercent = Num(0)
            /\ IF value > 0
               THEN m.portfolio24hChangePercent.n * D * value
                        = m.portfolio24hChangePercent.d * changeN
               ELSE m.portfolio24hChangePercent = Num(0)

\* A render of two positions, one without a 24h change, whose quote value
\* differs from the invested total and whose 24h change is not 0.
C21_Witness ==
    /\ called = "summary"
    /\ Len(calledWith[1]) = 2
    /\ \E i \in 1..2 : calledWith[1][i].ch24h = JSNull
    /\ returned.portfolioValue # returned.totalInvested
    /\ returned.totalInvested > 0
    /\ returned.portfolio24hChange # Num(0)

\* Runs r and q of the effect had identical inputs: holdings, histories and
\* window (now is the same throughout a behaviour).
SameInputs(r, q) ==
    /\ chartRuns[r].holdings = chartRuns[q].holdings
    /\ chartRuns[r].chartDays = chartRuns[q].chartDays
    /\ chartRuns[r].responses = chartRuns[q].responses

SamplesOf(r) ==
    AllChartData(chartRuns[r].holdings, Promises(chartRuns[r]), nowTs,
                 chartRuns[r].chartDays)[1]

\* The accumulator of run r after holdings.forEach.
AccumulatedOf(r) ==
    AccumulatedProfitMap(chartRuns[r].holdings,
                         AllChartData(chartRuns[r].holdings, Promises(chartRuns[r]),
                                      nowTs, chartRuns[r].chartDays),
                         nowTs, chartRuns[r].chartDays)

\* C23: within one holding, when several in-window samples fall in one day
\* bucket, the sample that comes last in the input array alone determines
\* the holding's price for the bucket, whatever the samples' timestamps:
\* the holding contributes quantity * (that price - avgBuyPrice) there.
C23_LastWriteWins ==
    \A r \in 1..Len(chartRuns) :
        (/\ chartRuns[r].pc = "done"
         /\ Len(chartRuns[r].holdings) = 1
         /\ chartRuns[r].holdings[1].quantity > 0)
            => LET h       == chartRuns[r].holdings[1]
                   data    == SamplesOf(r)
                   acc     == AccumulatedOf(r)
                   ws      == WindowStart(nowTs, chartRuns[r].chartDays)
                   usable  == {k \in 1..Len(data) : UsablePoint(data[k], ws)}
                   bucket(k) == bucketTimestamp(data[k][1]).n
               IN  \A k \in usable :
                       LET same == {j \in usable : bucket(j) = bucket(k)}
                           last == CHOOSE j \in same : \A i \in same : i <= j
                       IN  /\ bucket(k) \in DOMAIN acc
                           /\ acc[bucket(k)] =
                                  h.quantity * (data[last][2].n - h.avgBuyPrice)
                                  + (IF bucket(k) = NowBucket(nowTs)
                                     THEN LiveProfit(h) ELSE 0)

\* A finished run whose history has two samples of one day, the later one
\* first in the array, with distinct prices.
C23_Witness ==
    /\ Len(chartRuns) >= 1
    /\ chartRuns[1].pc = "done"
    /\ Len(chartRuns[1].holdings) = 1
    /\ chartRuns[1].holdings[1].quantity > 0
    /\ chartRuns[1].responses[1].ok
    /\ LET prices == chartRuns[1].responses[1].prices
       IN  /\ Len(prices) = 2
           /\ bucketTimestamp(prices[1][1]) = bucketTimestamp(prices[2][1])
           /\ NumLess(prices[2][1], prices[1][1])
           /\ prices[1][2] # prices[2][2]

\* C24: when a holding's history is empty and its sparkline has n >= 1
\* points, the synthesized samples carry the sparkline prices in order at
\* the timestamps now - (n-1-i)*step, step = windowDays*24h / max(n-1, 1):
\* evenly spaced, strictly ascending, the last one at now and, for n >= 2,
\* the first one at now - windowDays*24h.
C24_SparklineSpacing ==
    RunDone =>
        LET hs   == RunHoldings
            data == RunChartData
            windowMs == RunDays * 24 * ONE_HOUR_MS
        IN  \A i \in 1..Len(hs) :
                LET n    == Len(hs[i].sparkline)
                    span == IF n - 1 >= 1 THEN n - 1 ELSE 1
                IN  (NoHistory(i) /\ n >= 1) =>
                        /\ Len(data[i]) = n
                        /\ \A k \in 1..n :
                              /\ data[i][k][2] = Num(hs[i].sparkline[k])
                              \* timestamp = now - (n - k) * windowMs / span
                              /\ data[i][k][1].n * span =
                                     data[i][k][1].d * (nowTs * span - (n - k) * windowMs)
                        /\ \A k \in 1..(n - 1) : NumLess(data[i][k][1], data[i][k + 1][1])
                        /\ data[i][n][1] = Num(nowTs)
                        /\ n >= 2 => data[i][1][1] = Num(nowTs - windowMs)

\* A finished run whose history request failed for a holding with a
\* sparkline of 3 points, and one for a holding with 48 points.
C24_Witness ==
    /\ RunDone
    /\ Len(RunHoldings) = 2
    /\ Len(RunHoldings[1].sparkline) = 3
    /\ Len(RunHoldings[2].sparkline) = FALLBACK_SPARKLINE_POINTS
    /\ NoHistory(1)
    /\ NoHistory(2)
    /\ ~chartRuns[1].responses[1].ok

----------------------------------------------------------------------------
(* The loading flag, the nowBucket total, coin search, currency, paging.   *)

\* The step is a 2-minute interval call of loadPortfolio: a load starts in
\* the effect instance that is already running.
IsIntervalRefresh ==
    /\ Len(loads') = Len(loads) + 1
    /\ loadEffects' = loadEffects

\* C25: once holdings are loaded and not empty, an interval refresh does not
\* set loading to true.
C25_RefreshKeepsLoadingFalse ==
    [][(IsIntervalRefresh /\ Len(holdings) > 0 /\ ~loading) => ~loading']_vars

\* C27: the loading flag never stays stuck: once the load effect has run and
\* no load and no trade is in flight, loading is false.
C27_LoadingNotStuck == (LoadQuiescent /\ Len(loadEffects) > 0) => ~loading

\* C26: before the re-baseline the accumulator at nowBucket is the current
\* unrealized profit, the sum of quantity * (currentPrice - avgBuyPrice)
\* over the holdings of positive quantity: no holding is counted twice
\* there, also when its history has a sample in nowBucket.
C26_NowBucketIsCurrentProfit ==
    (RunDone /\ Len(RunHoldings) > 0) =>
        LET map == RunProfitMap
        IN  /\ NowBucket(nowTs) \in DOMAIN map
            /\ map[NowBucket(nowTs)] = CurrentProfit(RunHoldings)

\* No debounce timer is pending and no search request is in flight.
SearchQuiescent ==
    \A i \in 1..Len(searches) : searches[i].phase \in {"cleared", "done"}

\* The result lists that belong to a query: none for a query shorter than 2
\* characters, else the service's matches or the empty list of a failure.
ResultsFor(query) ==
    IF Len(trim(query)) < 2
    THEN { <<>> }
    ELSE { searchCoins(query, reply) : reply \in SearchReplies(query) }

\* C28: once no search of the modal is pending or in flight, searchLoading
\* is false and the results shown belong to the query in the search box.
C28_SearchLoadingNotStuck ==
    SearchQuiescent =>
        /\ ~searchLoading
        /\ searchResults \in ResultsFor(searchQuery)

\* No profile load that was started after the latest event has completed.
NoLaterLoadDone ==
    \A i \in 1..Len(currencyLoads) :
        currencyLoads[i].events = eventCount => currencyLoads[i].phase # "done"

\* C29: after a currency-changed event has been handled, the currency of the
\* hook is the currency of the latest event, also when a profile load that
\* was started before the event completes after it.
C29_EventCurrencyKept ==
    (eventCount > 0 /\ NoLaterLoadDone) => currency = lastEvent

\* C30: the current page of the dashboard is between 1 and totalPages.
C30_PageInRange == 1 <= page /\ page <= totalPages

====
